---- MODULE Spec2Model ----
(***************************************************************************)
(* Retrieval and fusion engine of the audit-finding RAG service:           *)
(* VectorSearchService (search, keywordSearch, hybridSearch,               *)
(* mergeAndRerankResults, buildFilterStages) over a document store that    *)
(* answers $vectorSearch and $text aggregations; DocumentProcessor         *)
(* (sections, sentences, chunks with overlap); RAGPipeline.queryStream     *)
(* with the handler that writes its events; AuditFindingIngestion          *)
(* (batches of findings processed concurrently).                          *)
(*                                                                         *)
(* Scores are exact rationals [n, d] in lowest terms, so the reciprocal    *)
(* rank terms 1/(60 + rank + 1) and their sums are compared exactly.       *)
(***************************************************************************)
EXTENDS Integers, Sequences, FiniteSets, TLC

(***************************************************************************)
(* Bounds of the model.                                                    *)
(***************************************************************************)
MaxVecLen == 3      \* longest vector list handed to the fusion directly
MaxKwLen == 2       \* longest keyword list handed to the fusion directly
MaxTopK == 2        \* largest topK a caller passes

(***************************************************************************)
(* Program constants.                                                      *)
(***************************************************************************)
RRF_K == 60                 \* const k = 60
DefaultTopK == 5            \* topK = 5
DefaultMinScoreTenths == 7  \* minScore = 0.7
NumCandidatesFactor == 10   \* numCandidates: topK * 10
TextScoreDivisor == 10      \* $divide: ['$score', 10]

(***************************************************************************)
(* Exact rationals.                                                        *)
(***************************************************************************)
RECURSIVE GCD(_, _)
GCD(a, b) == IF b = 0 THEN a ELSE GCD(b, a % b)

Frac(n, d) == LET g == GCD(n, d) IN [n |-> n \div g, d |-> d \div g]

\* x + y, through the least common denominator
FracAdd(x, y) ==
    LET g == GCD(x.d, y.d)
    IN  Frac(x.n * (y.d \div g) + y.n * (x.d \div g), (x.d \div g) * y.d)

\* a/b < c/d for a, c >= 0 and b, d > 0, by comparing integer parts and then
\* the reciprocals of the fractional parts (no cross product)
RECURSIVE RatioLess(_, _, _, _)
RatioLess(a, b, c, d) ==
    IF a \div b # c \div d THEN a \div b < c \div d
    ELSE IF c % d = 0 THEN FALSE
    ELSE IF a % b = 0 THEN TRUE
    ELSE RatioLess(d, c % d, b, a % b)

FracLess(x, y) == RatioLess(x.n, x.d, y.n, y.d)

FracLeq(x, y) == ~FracLess(y, x)

Zero == [n |-> 0, d |-> 1]

Min(a, b) == IF a < b THEN a ELSE b

(***************************************************************************)
(* Options: an optional field is <<>> (undefined) or <<value>>.            *)
(***************************************************************************)
OrDefault(field, default) == IF field = <<>> THEN default ELSE field[1]

(***************************************************************************)
(* mergeAndRerankResults: Reciprocal Rank Fusion over a Map keyed by       *)
(* id.toString().  The Map is a sequence of entries in insertion order.    *)
(***************************************************************************)
\* ObjectId.toString(): the key under which a result is accumulated.
IdKey(id) == ToString(id)

RrfTermNoPlusOne(rank) == Frac(1, RRF_K + rank)

\* const rrfScore = 1 / (k + rank + 1), rank zero-based
RrfTerm(rank) == Frac(1, RRF_K + rank + 1)

MapHas(m, key) == \E i \in 1..Len(m) : m[i].key = key

MapIndex(m, key) == CHOOSE i \in 1..Len(m) : m[i].key = key

MapSetAlwaysAppend(m, key, value) ==
    Append(m, [key |-> key, result |-> value.result, rrfScore |-> value.rrfScore])

\* Map.prototype.set: an existing key keeps its insertion position and gets
\* the new value; a new key is appended.
MapSet(m, key, value) ==
    IF MapHas(m, key)
    THEN [m EXCEPT ![MapIndex(m, key)] =
            [key |-> key, result |-> value.result, rrfScore |-> value.rrfScore]]
    ELSE Append(m, [key |-> key, result |-> value.result, rrfScore |-> value.rrfScore])

\* vectorResults.forEach body: scoreMap.set(id, { result, rrfScore })
VectorStep(m, result, rank) ==
    MapSet(m, IdKey(result.id), [result |-> result, rrfScore |-> RrfTerm(rank)])

KeywordStepOverwrite(m, result, rank) ==
    MapSet(m, IdKey(result.id), [result |-> result, rrfScore |-> RrfTerm(rank)])

\* keywordResults.forEach body: accumulate into an existing entry, else set
KeywordStep(m, result, rank) ==
    LET key == IdKey(result.id) IN
    IF MapHas(m, key)
    THEN LET i == MapIndex(m, key) IN
         [m EXCEPT ![i].rrfScore = FracAdd(m[i].rrfScore, RrfTerm(rank))]
    ELSE MapSet(m, key, [result |-> result, rrfScore |-> RrfTerm(rank)])

RECURSIVE VectorLoop(_, _, _)
VectorLoop(m, vs, rank) ==
    IF rank >= Len(vs) THEN m
    ELSE VectorLoop(VectorStep(m, vs[rank + 1], rank), vs, rank + 1)

RECURSIVE KeywordLoop(_, _, _)
KeywordLoop(m, ks, rank) ==
    IF rank >= Len(ks) THEN m
    ELSE KeywordLoop(KeywordStep(m, ks[rank + 1], rank), ks, rank + 1)

\* Insert e into the descending-sorted sequence s after every element that
\* does not compare greater than e (comparator b.rrfScore - a.rrfScore <= 0
\* keeps the earlier element first: Array.prototype.sort is stable).
RECURSIVE InsertDescBeforeEqual(_, _)
InsertDescBeforeEqual(s, e) ==
    IF s = <<>> THEN <<e>>
    ELSE IF FracLeq(s[1].rrfScore, e.rrfScore) THEN <<e>> \o s
    ELSE <<s[1]>> \o InsertDescBeforeEqual(Tail(s), e)

RECURSIVE InsertDesc(_, _)
InsertDesc(s, e) ==
    IF s = <<>> THEN <<e>>
    ELSE IF FracLess(s[1].rrfScore, e.rrfScore) THEN <<e>> \o s
    ELSE <<s[1]>> \o InsertDesc(Tail(s), e)

RECURSIVE SortFrom(_, _, _)
SortFrom(acc, s, i) ==
    IF i > Len(s) THEN acc ELSE SortFrom(InsertDesc(acc, s[i]), s, i + 1)

\* .sort((a, b) => b.rrfScore - a.rrfScore)
SortByRrfDesc(s) == SortFrom(<<>>, s, 1)

\* .slice(0, n)
Slice(s, n) == SubSeq(s, 1, Min(n, Len(s)))

\* .map(item => ({ ...item.result, score: item.rrfScore }))
WithScore(item) == [item.result EXCEPT !.score = item.rrfScore]

ScoreMap(vs, ks) == KeywordLoop(VectorLoop(<<>>, vs, 0), ks, 0)

mergeAndRerankResults(vs, ks, topK) ==
    LET top == Slice(SortByRrfDesc(ScoreMap(vs, ks)), topK)
    IN  [i \in 1..Len(top) |-> WithScore(top[i])]

(***************************************************************************)
(* The document store (AuditFinding collection) and the relevance the      *)
(* store's two indexes assign to its documents for the query at hand.      *)
(***************************************************************************)
DocIds == {1, 2}

\* Metadata combinations held by stored findings: the filterable fields
\* differ from the first combination in impact and firm, or in protocol.
Metas ==
    { [impact |-> "HIGH", protocol_name |-> "P1", firm_name |-> "F1"],
      [impact |-> "LOW",  protocol_name |-> "P1", firm_name |-> "F2"],
      [impact |-> "HIGH", protocol_name |-> "P2", firm_name |-> "F1"] }

\* vectorSearchScore in tenths: below, at and above the default minScore
SimTenths == {6, 7, 9}

\* textScore as the store reports it; 0 stands for "no $text match"
TextScores == {0, 4, 12}

\* how many chunks a stored finding holds (none: not yet indexed)
ChunkCounts == {0, 1, 2}

SectionOf(text) == IF text = "1" THEN "Description" ELSE "Recommendation"

ChunksOf(n) == [j \in 1..n |-> [text |-> ToString(j),
                                metadata |-> [section |-> SectionOf(ToString(j))]]]

Doc(id, meta, n) ==
    [_id |-> id,
     title |-> "title",
     summary |-> "summary",
     source_link |-> "link",
     impact |-> meta.impact,
     protocol_name |-> meta.protocol_name,
     firm_name |-> meta.firm_name,
     chunks |-> ChunksOf(n)]

Stores ==
    { [id \in DocIds |-> Doc(id, ms[id], ns[id])] :
        ms \in [DocIds -> Metas], ns \in [DocIds -> ChunkCounts] }

VARIABLES
    store,           \* AuditFinding collection: document id -> document
    sim,             \* document id -> vectorSearchScore (tenths) the vector
                     \* index computed for the query (all 0 before it ran)
    textScore,       \* document id -> textScore the text index computed for
                     \* the query (0: no $text match, and before it ran)
    pc,              \* where the running call stands
    op,              \* the entry point the caller invoked
    options,         \* the options the caller passed
    searchOptions,   \* the options search() received
    vectorCalls,     \* topK of every search() invocation, in order
    keywordCalls,    \* topK of every keywordSearch() invocation, in order
    vectorResults,   \* what search() resolved to
    keywordResults,  \* what keywordSearch() resolved to
    results,         \* what the entry point returned
    error            \* the failure the call rejected with

retrievalVars ==
    <<store, sim, textScore, pc, op, options, searchOptions, vectorCalls,
      keywordCalls, vectorResults, keywordResults, results, error>>

\* DocumentProcessor.processAuditFinding
VARIABLES
    finding,         \* the finding handed to processAuditFinding
    chunks,          \* the chunk list it returned
    cpc              \* "idle", "ready" (called) or "done" (returned)

chunkVars == <<finding, chunks, cpc>>

\* RAGPipeline.queryStream and the RAGPlugin.queryStream handler that
\* consumes it
VARIABLES
    spc,             \* where the streaming request stands
    searchResults,   \* what hybridSearch resolved to
    generated,       \* the fragments streamChat has yielded, in order
    events,          \* the events queryStream has yielded, each written to
                     \* the response by the handler, in order
    responseEnded,   \* res.end() was called
    streamError      \* the error the handler passed to next(err)

streamVars ==
    <<spc, searchResults, generated, events, responseEnded, streamError>>

\* AuditFindingIngestion.ingestFindings
VARIABLES
    config,          \* batchSize and skipExisting of the ingestion
    findings,        \* the array handed to ingestFindings
    collection,      \* finding id -> "absent", "stored" or "indexed"
                     \* (saved with indexed_at)
    ipc,             \* where ingestFindings stands
    batchNo,         \* the batch under way, counted from 1
    settled,         \* position in findings -> where its processFinding
                     \* promise stands, its attempt number and its outcome
    totalSuccessful, \* the two running totals of ingestFindings
    totalFailed,
    reported         \* the finding ids named in the error report, in order

ingestVars ==
    <<config, findings, collection, ipc, batchNo, settled, totalSuccessful,
      totalFailed, reported>>

\* GeminiEmbeddingService.generateEmbeddings and the chunks processFinding
\* builds from what it returns
VARIABLES
    texts,          \* the texts handed to generateEmbeddings
    gpc,            \* where the call is
    offset,         \* i of the loop over the batches
    vectors,        \* results
    stored          \* finding.chunks as processFinding sets it

embedVars == <<texts, gpc, offset, vectors, stored>>

nonRetrievalVars == <<chunkVars, streamVars, ingestVars, embedVars>>

vars == <<retrievalVars, chunkVars, streamVars, ingestVars, embedVars>>

\* no embedding call is under way
EmbedIdle ==
    /\ texts = <<>>
    /\ gpc = "idle"
    /\ offset = 0
    /\ vectors = <<>>
    /\ stored = <<>>

\* no ingestion run is under way
IngestIdle ==
    /\ config = <<>>
    /\ findings = <<>>
    /\ collection = <<>>
    /\ ipc = "idle"
    /\ batchNo = 0
    /\ settled = <<>>
    /\ totalSuccessful = 0
    /\ totalFailed = 0
    /\ reported = <<>>

\* no streaming request is under way
StreamIdle ==
    /\ spc = "idle"
    /\ searchResults = <<>>
    /\ generated = <<>>
    /\ events = <<>>
    /\ responseEnded = FALSE
    /\ streamError = "none"

\* no processAuditFinding call is under way
ChunkerIdle ==
    /\ finding = <<>>
    /\ chunks = <<>>
    /\ cpc = "idle"

(***************************************************************************)
(* Options.                                                                *)
(***************************************************************************)
NoFilters == [impact |-> {}, protocol |-> {}, firm |-> {}]

FilterChoices ==
    { NoFilters,
      [impact |-> {"HIGH"}, protocol |-> {}, firm |-> {}],
      [impact |-> {}, protocol |-> {"P1"}, firm |-> {}],
      [impact |-> {}, protocol |-> {}, firm |-> {"F1"}] }

MinScoreChoices == { <<>>, <<Frac(9, 10)>> }

TopKChoices == { <<>> } \cup { <<k>> : k \in 1..MaxTopK }

OptionChoices ==
    [topK : TopKChoices, minScore : MinScoreChoices, filters : FilterChoices]

\* Math.ceil(topK * 1.5)
ExpandTopKNone(topK) == topK

ExpandTopK(topK) == (3 * topK + 1) \div 2

(***************************************************************************)
(* Aggregation stages.  A row is a record with a score field; $sort leaves *)
(* the order of rows with equal keys to the store, so a sort stage has one *)
(* outcome per admissible order.                                           *)
(***************************************************************************)
Range(s) == {s[i] : i \in 1..Len(s)}

RECURSIVE SortedOrders(_)
SortedOrders(S) ==
    IF S = {} THEN {<<>>}
    ELSE UNION { { <<r>> \o t : t \in SortedOrders(S \ {r}) } :
                 r \in {x \in S : \A y \in S : FracLeq(y.score, x.score)} }

\* { $sort: { score: -1 } }
SortStage(rows) == SortedOrders(Range(rows))

\* { $limit: n }
LimitStage(rows, n) == SubSeq(rows, 1, Min(n, Len(rows)))

RECURSIVE Flatten(_)
Flatten(ss) == IF ss = <<>> THEN <<>> ELSE ss[1] \o Flatten(Tail(ss))

\* { $unwind: '$chunks' }: one row per chunk, none for an empty array
Unwind(rows) ==
    Flatten([i \in 1..Len(rows) |->
        [j \in 1..Len(rows[i].doc.chunks) |->
            [doc |-> rows[i].doc, chunks |-> <<rows[i].doc.chunks[j]>>,
             score |-> rows[i].score]]])

\* { $unwind: { path: '$chunks', preserveNullAndEmptyArrays: true } }
UnwindPreserve(rows) ==
    Flatten([i \in 1..Len(rows) |->
        IF rows[i].doc.chunks = <<>>
        THEN << [doc |-> rows[i].doc, chunks |-> <<>>, score |-> rows[i].score] >>
        ELSE [j \in 1..Len(rows[i].doc.chunks) |->
                [doc |-> rows[i].doc, chunks |-> <<rows[i].doc.chunks[j]>>,
                 score |-> rows[i].score]]])

\* A $match condition maps each constrained field to its allow-list ($in).
Matches(doc, cond) == \A f \in DOMAIN cond : doc[f] \in cond[f]

\* { $match: cond }
MatchStage(rows, cond) == SelectSeq(rows, LAMBDA r : Matches(r.doc, cond))

\* the filter conditions both retrievers build: a field is constrained only
\* when its allow-list is non-empty (filters.impact?.length)
FilterConditions(filters) ==
    LET fields == {f \in {"impact", "protocol_name", "firm_name"} :
                     CASE f = "impact" -> filters.impact # {}
                       [] f = "protocol_name" -> filters.protocol # {}
                       [] f = "firm_name" -> filters.firm # {}}
    IN  [f \in fields |->
            CASE f = "impact" -> filters.impact
              [] f = "protocol_name" -> filters.protocol
              [] f = "firm_name" -> filters.firm]

buildFilterStagesNone(filters) == <<>>

buildFilterStages(filters) ==
    LET matchConditions == FilterConditions(filters)
    IN  IF DOMAIN matchConditions = {} THEN <<>> ELSE <<matchConditions>>

RECURSIVE ApplyStages(_, _)
ApplyStages(rows, stages) ==
    IF stages = <<>> THEN rows
    ELSE ApplyStages(MatchStage(rows, stages[1]), Tail(stages))

MinScoreStageNone(rows, minScore) == rows

\* { $match: { score: { $gte: minScore } } }
MinScoreStage(rows, minScore) ==
    SelectSeq(rows, LAMBDA r : FracLeq(minScore, r.score))

\* $vectorSearch over path chunks.embedding: the limit nearest documents
\* among the numCandidates nearest, each with its vectorSearchScore.
VectorSearchStage(numCandidates, limit, docs, score) ==
    LET indexed == {id \in DocIds : docs[id].chunks # <<>>}
        scored == {[doc |-> docs[id], score |-> Frac(score[id], 10)] : id \in indexed}
    IN  { LimitStage(LimitStage(o, numCandidates), limit) : o \in SortedOrders(scored) }

\* the $project stage of search(), for one row
ProjectVector(r) ==
    [id |-> r.doc._id,
     text |-> r.chunks[1].text,
     score |-> r.score,
     metadata |-> [protocol |-> r.doc.protocol_name,
                   impact |-> r.doc.impact,
                   title |-> r.doc.title,
                   section |-> r.chunks[1].metadata.section,
                   source_link |-> r.doc.source_link,
                   firm |-> r.doc.firm_name]]

\* the $project stage of keywordSearch(), for one row: $ifNull falls back
\* to the summary
ProjectKeyword(r) ==
    [id |-> r.doc._id,
     text |-> IF r.chunks = <<>> THEN r.doc.summary ELSE r.chunks[1].text,
     score |-> Frac(r.score.n, r.score.d * TextScoreDivisor),
     metadata |-> [protocol |-> r.doc.protocol_name,
                   impact |-> r.doc.impact,
                   title |-> r.doc.title,
                   section |-> IF r.chunks = <<>> THEN "summary"
                               ELSE r.chunks[1].metadata.section,
                   source_link |-> r.doc.source_link,
                   firm |-> r.doc.firm_name]]

ProjectVectorStage(rows) == [i \in 1..Len(rows) |-> ProjectVector(rows[i])]

ProjectKeywordStage(rows) == [i \in 1..Len(rows) |-> ProjectKeyword(rows[i])]

\* Every list AuditFinding.aggregate(pipeline) of search() can resolve to.
SearchOutcomes(opts, docs, score) ==
    LET topK == OrDefault(opts.topK, DefaultTopK)
        minScore == OrDefault(opts.minScore, Frac(DefaultMinScoreTenths, 10))
    IN  UNION {
          { LimitStage(ProjectVectorStage(sorted), topK) :
              sorted \in SortStage(
                  MinScoreStage(
                      ApplyStages(Unwind(found), buildFilterStages(opts.filters)),
                      minScore)) } :
          found \in VectorSearchStage(topK * NumCandidatesFactor, topK, docs, score) }

\* Every list the aggregation of keywordSearch() can resolve to.
KeywordOutcomes(opts, docs, score) ==
    LET topK == OrDefault(opts.topK, DefaultTopK)
        textMatched == {id \in DocIds : score[id] > 0}
        matchConditions == FilterConditions(opts.filters)
        matched == {[doc |-> docs[id], score |-> Frac(score[id], 1)] :
                        id \in {i \in textMatched : Matches(docs[i], matchConditions)}}
    IN  { ProjectKeywordStage(UnwindPreserve(LimitStage(sorted, topK))) :
            sorted \in SortedOrders(matched) }

(***************************************************************************)
(* The service.  One call runs at a time; every await is a step.           *)
(***************************************************************************)
Init ==
    /\ store \in Stores
    /\ sim = [id \in DocIds |-> 0]
    /\ textScore = [id \in DocIds |-> 0]
    /\ pc = "idle"
    /\ op = "none"
    /\ options = <<>>
    /\ searchOptions = <<>>
    /\ vectorCalls = <<>>
    /\ keywordCalls = <<>>
    /\ vectorResults = <<>>
    /\ keywordResults = <<>>
    /\ results = <<>>
    /\ error = "none"
    /\ ChunkerIdle
    /\ StreamIdle
    /\ EmbedIdle
    /\ IngestIdle

\* search(query, options) up to its first await (generateEmbedding)
SearchCall(opts) ==
    /\ pc = "idle"
    /\ op' = "search"
    /\ options' = opts
    /\ searchOptions' = opts
    /\ vectorCalls' = Append(vectorCalls, OrDefault(opts.topK, DefaultTopK))
    /\ pc' = "embedding"
    /\ UNCHANGED <<store, sim, textScore, keywordCalls, vectorResults,
                   keywordResults, results, error>>
    /\ UNCHANGED nonRetrievalVars

\* both retrievers started at once (Promise.all) instead of in sequence
HybridSearchCallConcurrent(opts) ==
    LET topK == OrDefault(opts.topK, DefaultTopK)
        expanded == [opts EXCEPT !.topK = <<ExpandTopK(topK)>>]
    IN  /\ pc = "idle"
        /\ op' = "hybridSearch"
        /\ options' = opts
        /\ searchOptions' = expanded
        /\ vectorCalls' = Append(vectorCalls, OrDefault(expanded.topK, DefaultTopK))
        /\ keywordCalls' = Append(keywordCalls, topK)
        /\ pc' = "embedding"
        /\ UNCHANGED <<store, sim, textScore, vectorResults, keywordResults,
                       results, error>>
        /\ UNCHANGED nonRetrievalVars

\* hybridSearch(query, options) up to the first await inside this.search
HybridSearchCall(opts) ==
    LET topK == OrDefault(opts.topK, DefaultTopK)
        expanded == [opts EXCEPT !.topK = <<ExpandTopK(topK)>>]
    IN  /\ pc = "idle"
        /\ op' = "hybridSearch"
        /\ options' = opts
        /\ searchOptions' = expanded
        /\ vectorCalls' = Append(vectorCalls, OrDefault(expanded.topK, DefaultTopK))
        /\ pc' = "embedding"
        /\ UNCHANGED <<store, sim, textScore, keywordCalls, vectorResults,
                       keywordResults, results, error>>
        /\ UNCHANGED nonRetrievalVars

\* embeddingService.generateEmbedding resolves: the aggregation is issued
EmbeddingResolves ==
    /\ pc = "embedding"
    /\ pc' = "vectorQuery"
    /\ UNCHANGED <<store, sim, textScore, op, options, searchOptions, vectorCalls,
                   keywordCalls, vectorResults, keywordResults, results, error>>
    /\ UNCHANGED nonRetrievalVars

\* embeddingService.generateEmbedding rejects: search and its caller reject
EmbeddingRejects ==
    /\ pc = "embedding"
    /\ pc' = "failed"
    /\ error' = "embedding"
    /\ UNCHANGED <<store, sim, textScore, op, options, searchOptions, vectorCalls,
                   keywordCalls, vectorResults, keywordResults, results>>
    /\ UNCHANGED nonRetrievalVars

\* AuditFinding.aggregate(pipeline) of search() resolves.  A direct caller
\* gets the list; hybridSearch goes on to call keywordSearch(query, options).
VectorQueryResolves ==
    /\ pc = "vectorQuery"
    /\ sim' \in [DocIds -> SimTenths]
    /\ \E found \in SearchOutcomes(searchOptions, store, sim') :
          /\ vectorResults' = found
          /\ IF op = "search"
             THEN /\ results' = found
                  /\ pc' = "done"
                  /\ UNCHANGED keywordCalls
             ELSE /\ keywordCalls' =
                        Append(keywordCalls, OrDefault(options.topK, DefaultTopK))
                  /\ pc' = "keywordQuery"
                  /\ UNCHANGED results
    /\ UNCHANGED <<store, textScore, op, options, searchOptions, vectorCalls,
                   keywordResults, error>>
    /\ UNCHANGED nonRetrievalVars

VectorQueryRejects ==
    /\ pc = "vectorQuery"
    /\ pc' = "failed"
    /\ error' = "vectorStore"
    /\ UNCHANGED <<store, sim, textScore, op, options, searchOptions, vectorCalls,
                   keywordCalls, vectorResults, keywordResults, results>>
    /\ UNCHANGED nonRetrievalVars

\* the aggregation of keywordSearch() resolves
KeywordQueryResolves ==
    /\ pc = "keywordQuery"
    /\ textScore' \in [DocIds -> TextScores]
    /\ \E found \in KeywordOutcomes(options, store, textScore') :
          keywordResults' = found
    /\ pc' = "merge"
    /\ UNCHANGED <<store, sim, op, options, searchOptions, vectorCalls,
                   keywordCalls, vectorResults, results, error>>
    /\ UNCHANGED nonRetrievalVars

\* a keywordSearch failure caught and degraded to the vector list alone
KeywordQueryRejectsDegrades ==
    /\ pc = "keywordQuery"
    /\ pc' = "merge"
    /\ error' = "keywordStore"
    /\ keywordResults' = <<>>
    /\ UNCHANGED <<store, sim, textScore, op, options, searchOptions, vectorCalls,
                   keywordCalls, vectorResults, results>>
    /\ UNCHANGED nonRetrievalVars

KeywordQueryRejects ==
    /\ pc = "keywordQuery"
    /\ pc' = "failed"
    /\ error' = "keywordStore"
    /\ UNCHANGED <<store, sim, textScore, op, options, searchOptions, vectorCalls,
                   keywordCalls, vectorResults, keywordResults, results>>
    /\ UNCHANGED nonRetrievalVars

\* an empty fusion treated as a failure
MergeAndReturnRejectsEmpty ==
    /\ pc = "merge"
    /\ IF vectorResults = <<>> /\ keywordResults = <<>>
       THEN /\ pc' = "failed"
            /\ error' = "noResults"
            /\ UNCHANGED results
       ELSE /\ results' = mergeAndRerankResults(vectorResults, keywordResults,
                                                OrDefault(options.topK, DefaultTopK))
            /\ pc' = "done"
            /\ UNCHANGED error
    /\ UNCHANGED <<store, sim, textScore, op, options, searchOptions, vectorCalls,
                   keywordCalls, vectorResults, keywordResults>>
    /\ UNCHANGED nonRetrievalVars

\* return this.mergeAndRerankResults(vectorResults, keywordResults, topK)
MergeAndReturn ==
    /\ pc = "merge"
    /\ results' = mergeAndRerankResults(vectorResults, keywordResults,
                                        OrDefault(options.topK, DefaultTopK))
    /\ pc' = "done"
    /\ UNCHANGED <<store, sim, textScore, op, options, searchOptions, vectorCalls,
                   keywordCalls, vectorResults, keywordResults, error>>
    /\ UNCHANGED nonRetrievalVars

Next ==
    \/ \E opts \in OptionChoices : SearchCall(opts)
    \/ \E opts \in OptionChoices : HybridSearchCall(opts)
    \/ EmbeddingResolves
    \/ EmbeddingRejects
    \/ VectorQueryResolves
    \/ VectorQueryRejects
    \/ KeywordQueryResolves
    \/ KeywordQueryRejects
    \/ MergeAndReturn

Spec == Init /\ [][Next]_vars

(***************************************************************************)
(* The fusion on its own: mergeAndRerankResults applied to arbitrary pairs *)
(* of lists, a document id possibly at several ranks of one list.          *)
(***************************************************************************)
Candidate(id, text) ==
    [id |-> id,
     text |-> text,
     score |-> Zero,
     metadata |-> [protocol |-> "P1", impact |-> "HIGH", title |-> "title",
                   section |-> SectionOf(text), source_link |-> "link",
                   firm |-> "F1"]]

FuseCandidates ==
    { Candidate(1, "1"), Candidate(1, "2"), Candidate(2, "1"), Candidate(3, "1") }

SeqsUpTo(S, n) == UNION { [1..k -> S] : k \in 0..n }

InitFuse ==
    /\ store = [id \in DocIds |-> Doc(id, CHOOSE m \in Metas : m.impact = "LOW", 0)]
    /\ sim = [id \in DocIds |-> 0]
    /\ textScore = [id \in DocIds |-> 0]
    /\ pc = "merge"
    /\ op = "fuse"
    /\ options \in [topK : TopKChoices, minScore : {<<>>}, filters : {NoFilters}]
    /\ searchOptions = <<>>
    /\ vectorCalls = <<>>
    /\ keywordCalls = <<>>
    /\ vectorResults \in SeqsUpTo(FuseCandidates, MaxVecLen)
    /\ keywordResults \in SeqsUpTo(FuseCandidates, MaxKwLen)
    /\ results = <<>>
    /\ error = "none"
    /\ ChunkerIdle
    /\ StreamIdle
    /\ EmbedIdle
    /\ IngestIdle

NextFuse == MergeAndReturn

SpecFuse == InitFuse /\ [][NextFuse]_vars

(***************************************************************************)
(* DocumentProcessor.  A text is a sequence of items: 0 is a run of        *)
(* sentence terminators (. ! ?), w > 0 is a run of w words separated by    *)
(* white space.  A sentence is [pos |-> its place in the section's         *)
(* sentence list, words |-> its number of words].                          *)
(***************************************************************************)
MaxSentences == 4

maxChunkSize == 512

chunkOverlap == 50

\* text.split(/\s+/).length of a trimmed text of that many words: the empty
\* string splits into one (empty) piece
SplitLength(words) == IF words = 0 THEN 1 ELSE words

\* Math.ceil(text.split(/\s+/).length * 1.3)
estimateTokens(words) == (13 * SplitLength(words) + 9) \div 10

RECURSIVE SplitFrom(_, _, _, _)
\* text.split(/[.!?]+/).map(trim).filter(non-empty): cur is the number of
\* words of the piece being read, out the sentences found so far
SplitFrom(text, i, cur, out) ==
    LET close == IF cur > 0
                 THEN Append(out, [pos |-> Len(out) + 1, words |-> cur])
                 ELSE out
    IN  IF i > Len(text) THEN close
        ELSE IF text[i] = 0 THEN SplitFrom(text, i + 1, 0, close)
        ELSE SplitFrom(text, i + 1, cur + text[i], out)

splitIntoSentences(text) == SplitFrom(text, 1, 0, <<>>)

RECURSIVE SumWords(_)
\* the number of words of sentences.join(' ')
SumWords(sentences) ==
    IF sentences = <<>> THEN 0
    ELSE Head(sentences).words + SumWords(Tail(sentences))

RECURSIVE OverlapFromNoBudget(_, _, _, _)
OverlapFromNoBudget(sentences, i, overlapSize, overlap) ==
    IF i < 1 THEN overlap
    ELSE OverlapFromNoBudget(sentences, i - 1,
                             overlapSize + estimateTokens(sentences[i].words),
                             <<sentences[i]>> \o overlap)

RECURSIVE OverlapFrom(_, _, _, _)
\* the loop of getOverlapSentences, from the last sentence backwards
OverlapFrom(sentences, i, overlapSize, overlap) ==
    IF i < 1 THEN overlap
    ELSE LET sentenceSize == estimateTokens(sentences[i].words)
         IN  IF overlapSize + sentenceSize > chunkOverlap THEN overlap
             ELSE OverlapFrom(sentences, i - 1, overlapSize + sentenceSize,
                              <<sentences[i]>> \o overlap)

\* the leading sentence taken instead of the trailing ones
getOverlapSentencesFirst(sentences) ==
    IF estimateTokens(sentences[1].words) > chunkOverlap THEN <<>>
    ELSE <<sentences[1]>>

getOverlapSentences(sentences) == OverlapFrom(sentences, Len(sentences), 0, <<>>)

RECURSIVE ChunkLoopNoOverlap(_, _, _, _, _)
ChunkLoopNoOverlap(sentences, i, out, currentChunk, currentSize) ==
    IF i > Len(sentences)
    THEN IF Len(currentChunk) > 0 THEN Append(out, currentChunk) ELSE out
    ELSE LET sentenceSize == estimateTokens(sentences[i].words)
         IN  IF currentSize + sentenceSize > maxChunkSize /\ Len(currentChunk) > 0
             THEN ChunkLoopNoOverlap(sentences, i + 1, Append(out, currentChunk),
                                     <<sentences[i]>>, sentenceSize)
             ELSE ChunkLoopNoOverlap(sentences, i + 1, out,
                                     Append(currentChunk, sentences[i]),
                                     currentSize + sentenceSize)

RECURSIVE ChunkLoopAlwaysFlush(_, _, _, _, _)
ChunkLoopAlwaysFlush(sentences, i, out, currentChunk, currentSize) ==
    IF i > Len(sentences)
    THEN Append(out, currentChunk)
    ELSE LET sentenceSize == estimateTokens(sentences[i].words)
         IN  IF currentSize + sentenceSize > maxChunkSize
             THEN LET overlapSentences == getOverlapSentences(currentChunk)
                  IN  ChunkLoopAlwaysFlush(sentences, i + 1,
                                Append(out, currentChunk),
                                Append(overlapSentences, sentences[i]),
                                estimateTokens(SumWords(overlapSentences))
                                    + sentenceSize)
             ELSE ChunkLoopAlwaysFlush(sentences, i + 1, out,
                                Append(currentChunk, sentences[i]),
                                currentSize + sentenceSize)

RECURSIVE ChunkLoop(_, _, _, _, _)
\* the for loop of chunkText and the final push; a chunk is kept as the
\* list of sentences that join(' ') glues together
ChunkLoop(sentences, i, out, currentChunk, currentSize) ==
    IF i > Len(sentences)
    THEN IF Len(currentChunk) > 0 THEN Append(out, currentChunk) ELSE out
    ELSE LET sentenceSize == estimateTokens(sentences[i].words)
         IN  IF currentSize + sentenceSize > maxChunkSize /\ Len(currentChunk) > 0
             THEN LET overlapSentences == getOverlapSentences(currentChunk)
                  IN  ChunkLoop(sentences, i + 1, Append(out, currentChunk),
                                Append(overlapSentences, sentences[i]),
                                estimateTokens(SumWords(overlapSentences))
                                    + sentenceSize)
             ELSE ChunkLoop(sentences, i + 1, out,
                            Append(currentChunk, sentences[i]),
                            currentSize + sentenceSize)

\* one chunk per sentence
chunkTextPerSentence(text) ==
    LET sentences == splitIntoSentences(text)
    IN  [k \in 1..Len(sentences) |-> <<sentences[k]>>]

chunkText(text) == ChunkLoop(splitIntoSentences(text), 1, <<>>, <<>>, 0)

(***************************************************************************)
(* A finding's content is kept as content.split(/\*\*([^*]+)\*\*/g) sees   *)
(* it: the text before the first **header** and, per header, its name and  *)
(* the text that follows it (<<>>: nothing but white space).               *)
(***************************************************************************)
MaxSections == 3

SectionNames == <<"Description", "Impact", "Recommendation", "References">>

RECURSIVE WholeFrom(_, _)
\* the items of the whole content string: a **header** reads as one word
WholeFrom(sections, i) ==
    IF i > Len(sections) THEN <<>>
    ELSE <<1>> \o sections[i].body \o WholeFrom(sections, i + 1)

WholeText(content) == content.preamble \o WholeFrom(content.sections, 1)

RECURSIVE SectionsFrom(_, _)
\* the loop of extractSections: a header whose trimmed text is empty is
\* dropped
SectionsFrom(sections, i) ==
    IF i > Len(sections) THEN <<>>
    ELSE IF sections[i].body # <<>>
         THEN <<[name |-> sections[i].name, content |-> sections[i].body]>>
                  \o SectionsFrom(sections, i + 1)
         ELSE SectionsFrom(sections, i + 1)

extractSections(content) ==
    LET sections == SectionsFrom(content.sections, 1)
    IN  IF Len(sections) = 0
        THEN <<[name |-> "content", content |-> WholeText(content)]>>
        ELSE sections

\* the context lines put before the chunk, and the chunk
enrichChunkContext(chunk, f, sectionName) ==
    [protocol |-> f.protocol_name,
     issue |-> f.title,
     impact |-> f.impact,
     section |-> sectionName,
     firm |-> f.firm_name,
     chunk |-> chunk]

RECURSIVE PushChunksSectionIdx(_, _, _, _, _)
PushChunksSectionIdx(f, sectionName, sectionChunks, idx, out) ==
    IF idx >= Len(sectionChunks) THEN out
    ELSE PushChunksSectionIdx(f, sectionName, sectionChunks, idx + 1,
            Append(out,
                   [text |-> enrichChunkContext(sectionChunks[idx + 1], f,
                                                sectionName),
                    chunk_index |-> idx,
                    metadata |-> [section |-> sectionName,
                                  impact |-> f.impact,
                                  protocol |-> f.protocol_name,
                                  firm |-> f.firm_name,
                                  title |-> f.title,
                                  source_link |-> f.source_link]]))

RECURSIVE PushChunks(_, _, _, _, _)
\* sectionChunks.forEach((chunk, idx) => chunks.push({...})): idx counts
\* from 0, chunk_index is chunks.length at the time of the push
PushChunks(f, sectionName, sectionChunks, idx, out) ==
    IF idx >= Len(sectionChunks) THEN out
    ELSE PushChunks(f, sectionName, sectionChunks, idx + 1,
            Append(out,
                   [text |-> enrichChunkContext(sectionChunks[idx + 1], f,
                                                sectionName),
                    chunk_index |-> Len(out),
                    metadata |-> [section |-> sectionName,
                                  impact |-> f.impact,
                                  protocol |-> f.protocol_name,
                                  firm |-> f.firm_name,
                                  title |-> f.title,
                                  source_link |-> f.source_link]]))

RECURSIVE ProcessSections(_, _, _, _)
\* sections.forEach(section => ...)
ProcessSections(f, sections, i, out) ==
    IF i > Len(sections) THEN out
    ELSE ProcessSections(f, sections, i + 1,
            PushChunks(f, sections[i].name, chunkText(sections[i].content),
                       0, out))

processAuditFinding(f) ==
    ProcessSections(f, extractSections(f.content), 1, <<>>)

\* the inputs: sentence lengths in words, whose estimates are 13, 39, 54,
\* 150, 280, 281, 468, 507 and 600 tokens
SentenceWords == {10, 30, 41, 115, 215, 216, 360, 390, 461}

RECURSIVE TextOf(_)
\* the text of sentences of these lengths, each closed by a full stop
TextOf(ws) == IF ws = <<>> THEN <<>> ELSE <<Head(ws), 0>> \o TextOf(Tail(ws))

LongBodies == { TextOf(ws) : ws \in SeqsUpTo(SentenceWords, MaxSentences) }

ShortBodies ==
    { <<>>, <<0>>, <<30, 0>>, <<0, 30, 41, 0, 0, 390>>,
      <<360, 0, 115, 0, 41, 0, 30, 0, 71>> }

Preambles == { <<>>, <<30, 0>> }

Named(bodies) ==
    [k \in 1..Len(bodies) |-> [name |-> SectionNames[k], body |-> bodies[k]]]

Contents ==
    { [preamble |-> <<>>, sections |-> Named(<<b>>)] : b \in LongBodies }
    \cup { [preamble |-> p, sections |-> Named(bs)] :
              p \in Preambles, bs \in SeqsUpTo(ShortBodies, MaxSections) }

Finding(content) ==
    [id |-> 1, title |-> "title", protocol_name |-> "P1", impact |-> "HIGH",
     firm_name |-> "F1", source_link |-> "link", content |-> content]

\* no search is under way
RetrievalIdle ==
    /\ store = [id \in DocIds |-> Doc(id, CHOOSE m \in Metas : m.impact = "LOW", 0)]
    /\ sim = [id \in DocIds |-> 0]
    /\ textScore = [id \in DocIds |-> 0]
    /\ pc = "idle"
    /\ op = "none"
    /\ options = <<>>
    /\ searchOptions = <<>>
    /\ vectorCalls = <<>>
    /\ keywordCalls = <<>>
    /\ vectorResults = <<>>
    /\ keywordResults = <<>>
    /\ results = <<>>
    /\ error = "none"

InitChunk ==
    /\ finding \in { Finding(c) : c \in Contents }
    /\ chunks = <<>>
    /\ cpc = "ready"
    /\ RetrievalIdle
    /\ StreamIdle
    /\ EmbedIdle
    /\ IngestIdle

\* const chunks = this.processor.processAuditFinding(finding)
ProcessAuditFinding ==
    /\ cpc = "ready"
    /\ chunks' = processAuditFinding(finding)
    /\ cpc' = "done"
    /\ UNCHANGED <<finding, retrievalVars, streamVars, ingestVars, embedVars>>

NextChunk == ProcessAuditFinding

SpecChunk == InitChunk /\ [][NextChunk]_vars

(***************************************************************************)
(* RAGPipeline.queryStream, consumed by the RAGPlugin.queryStream handler. *)
(* The generator runs only when the handler's for await pulls, and the     *)
(* handler writes every event it is handed before it pulls again, so a     *)
(* yield and its res.write are one step.                                   *)
(***************************************************************************)
MaxLines == 3

\* what hybridSearch may resolve to
SourceLists ==
    { <<>>, <<Candidate(1, "1")>>, <<Candidate(2, "1"), Candidate(1, "1")>> }

\* the data lines of the generation response: the text of the candidate,
\* "" when the line carries none, "[DONE]", or a line that is not JSON
DataLines == { "a", "b", "", "[DONE]", "invalid" }

\* if (data === '[DONE]') continue; try { parse; if (text) yield text }
\* catch { skip }
Yields(line) == line \notin { "", "[DONE]", "invalid" }

\* the handler is called with a body that has a query
QueryStreamCall ==
    /\ spc = "idle"
    /\ spc' = "retrieval"
    /\ UNCHANGED <<searchResults, generated, events, responseEnded, streamError>>
    /\ UNCHANGED <<retrievalVars, chunkVars, ingestVars, embedVars>>

\* the handler is called with no query: it throws before the stream exists
QueryStreamNoQuery ==
    /\ spc = "idle"
    /\ spc' = "failed"
    /\ streamError' = "badRequest"
    /\ UNCHANGED <<searchResults, generated, events, responseEnded>>
    /\ UNCHANGED <<retrievalVars, chunkVars, ingestVars, embedVars>>

\* hybridSearch resolved and the generation was started without the
\* sources event
RetrievalResolvesNoSources(found) ==
    /\ spc = "retrieval"
    /\ searchResults' = found
    /\ spc' = "generating"
    /\ UNCHANGED <<events, generated, responseEnded, streamError>>
    /\ UNCHANGED <<retrievalVars, chunkVars, ingestVars, embedVars>>

\* await hybridSearch resolves: yield { type: 'sources', data }, then the
\* context and the messages are built and streamChat is started
RetrievalResolves(found) ==
    /\ spc = "retrieval"
    /\ searchResults' = found
    /\ events' = Append(events, [type |-> "sources", data |-> found])
    /\ spc' = "generating"
    /\ UNCHANGED <<generated, responseEnded, streamError>>
    /\ UNCHANGED <<retrievalVars, chunkVars, ingestVars, embedVars>>

\* await hybridSearch rejects: the generator throws on the first pull and
\* the handler's catch passes the error on
RetrievalRejects ==
    /\ spc = "retrieval"
    /\ spc' = "failed"
    /\ streamError' = "retrieval"
    /\ UNCHANGED <<searchResults, generated, events, responseEnded>>
    /\ UNCHANGED <<retrievalVars, chunkVars, ingestVars, embedVars>>

\* streamChat reads one data line; a line with text is yielded and
\* queryStream yields it on as { type: 'chunk', data }
GenerationLine(line) ==
    /\ spc = "generating"
    /\ Len(generated) < MaxLines
    /\ IF Yields(line)
       THEN /\ generated' = Append(generated, line)
            /\ events' = Append(events, [type |-> "chunk", data |-> line])
       ELSE UNCHANGED <<generated, events>>
    /\ UNCHANGED <<spc, searchResults, responseEnded, streamError>>
    /\ UNCHANGED <<retrievalVars, chunkVars, ingestVars, embedVars>>

\* the response body is exhausted: streamChat returns, queryStream yields
\* { type: 'done' } and returns, the handler calls res.end()
GenerationEnds ==
    /\ spc = "generating"
    /\ events' = Append(events, [type |-> "done", data |-> <<>>])
    /\ responseEnded' = TRUE
    /\ spc' = "finished"
    /\ UNCHANGED <<searchResults, generated, streamError>>
    /\ UNCHANGED <<retrievalVars, chunkVars, ingestVars, embedVars>>

\* fetch fails, the response is not ok or a read fails: streamChat throws,
\* queryStream throws, the handler's catch passes the error on
GenerationFails ==
    /\ spc = "generating"
    /\ spc' = "failed"
    /\ streamError' = "generation"
    /\ UNCHANGED <<searchResults, generated, events, responseEnded>>
    /\ UNCHANGED <<retrievalVars, chunkVars, ingestVars, embedVars>>

InitStream ==
    /\ StreamIdle
    /\ EmbedIdle
    /\ IngestIdle
    /\ RetrievalIdle
    /\ ChunkerIdle

NextStream ==
    \/ QueryStreamCall
    \/ QueryStreamNoQuery
    \/ \E found \in SourceLists : RetrievalResolves(found)
    \/ RetrievalRejects
    \/ \E line \in DataLines : GenerationLine(line)
    \/ GenerationEnds
    \/ GenerationFails

SpecStream == InitStream /\ [][NextStream]_vars

(***************************************************************************)
(* AuditFindingIngestion.ingestFindings.  The findings of a batch are      *)
(* processed concurrently (Promise.allSettled over processFinding), so     *)
(* their awaits interleave; batches follow one another.                    *)
(***************************************************************************)
MaxFindings == 3

maxRetries == 3

\* config.batchSize and config.skipExisting as the caller sets them
Configs ==
    { [batchSize |-> 2, skipExisting |-> TRUE],
      [batchSize |-> 1, skipExisting |-> FALSE] }

\* an entry of the input array: null, or an object with its id and, when it
\* has one, its content
NullEntry == [isNull |-> TRUE, id |-> 0, content |-> <<>>]

ObjectEntry(id, content) == [isNull |-> FALSE, id |-> id, content |-> content]

SomeContent == [preamble |-> <<>>, sections |-> Named(<<<<30, 0, 390, 0>>>>)]

\* a content of punctuation only, such as "...": a non-empty string in which
\* splitIntoSentences finds no sentence
BlankContent == [preamble |-> <<0>>, sections |-> <<>>]

\* the cases of an entry: a well-formed finding not yet stored, one already
\* indexed, one without content, and null
EntryCases == {"new", "indexed", "noContent", "null"}

EntryOf(case, id) ==
    IF case = "null" THEN NullEntry
    ELSE IF case = "noContent" THEN ObjectEntry(id, <<>>)
    ELSE IF case = "blank" THEN ObjectEntry(id, <<BlankContent>>)
    ELSE ObjectEntry(id, <<SomeContent>>)

RECURSIVE BatchesFrom(_, _, _)
\* for (let i = 0; i < array.length; i += batchSize)
\*     batches.push(array.slice(i, i + batchSize))
BatchesFrom(array, batchSize, i) ==
    IF i >= Len(array) THEN <<>>
    ELSE <<SubSeq(array, i + 1, Min(i + batchSize, Len(array)))>>
             \o BatchesFrom(array, batchSize, i + batchSize)

createBatches(array, batchSize) == BatchesFrom(array, batchSize, 0)

\* the batches, each entry named by its position in the input array
Batches ==
    createBatches([k \in 1..Len(findings) |-> k], config.batchSize)

\* a processFinding promise: pending at one of its awaits (with the attempt
\* number and the number of chunks made), or settled with its status and
\* its reason
Promise(st, attempt, err, n) ==
    [st |-> st, attempt |-> attempt, error |-> err, chunks |-> n]

IsSettled(k) == settled[k].st \in {"fulfilled", "rejected"}

\* processFinding(finding) up to its first await: reading findingData.id
\* of a null entry throws, which rejects the promise at once
CallProcessFinding(k) ==
    IF findings[k].isNull THEN Promise("rejected", 0, "typeError", 0)
    ELSE IF config.skipExisting THEN Promise("findExisting", 0, "none", 0)
    ELSE Promise("findOne", 0, "none", 0)

\* every finding not yet started is started with batch b
StartBatchAll(b) ==
    [k \in DOMAIN settled |->
        IF settled[k].st = "pending" THEN CallProcessFinding(k) ELSE settled[k]]

\* findings.map(finding => this.processFinding(finding)) of batch b
StartBatch(b) ==
    [k \in DOMAIN settled |->
        IF \E j \in 1..Len(Batches[b]) : Batches[b][j] = k
        THEN CallProcessFinding(k)
        ELSE settled[k]]

InBatch(k) ==
    /\ ipc = "batch"
    /\ \E j \in 1..Len(Batches[batchNo]) : Batches[batchNo][j] = k

\* ingestFindings(findings): the batches are made and the first is started
IngestFindingsCall ==
    /\ ipc = "called"
    /\ IF Len(Batches) = 0
       THEN /\ ipc' = "completed"
            /\ UNCHANGED <<batchNo, settled>>
       ELSE /\ ipc' = "batch"
            /\ batchNo' = 1
            /\ settled' = StartBatch(1)
    /\ UNCHANGED <<config, findings, collection, totalSuccessful, totalFailed,
                   reported>>
    /\ UNCHANGED <<retrievalVars, chunkVars, streamVars, embedVars>>

\* await AuditFinding.findOne of the skipExisting test resolves
FindExistingResolves(k) ==
    /\ InBatch(k)
    /\ settled[k].st = "findExisting"
    /\ settled' = [settled EXCEPT ![k] =
                      IF collection[findings[k].id] = "indexed"
                      THEN Promise("fulfilled", 0, "none", 0)
                      ELSE Promise("findOne", 0, "none", 0)]
    /\ UNCHANGED <<config, findings, collection, ipc, batchNo, totalSuccessful,
                   totalFailed, reported>>
    /\ UNCHANGED <<retrievalVars, chunkVars, streamVars, embedVars>>

\* either findOne rejects
FindRejects(k) ==
    /\ InBatch(k)
    /\ settled[k].st \in {"findExisting", "findOne"}
    /\ settled' = [settled EXCEPT ![k] = Promise("rejected", 0, "lookup", 0)]
    /\ UNCHANGED <<config, findings, collection, ipc, batchNo, totalSuccessful,
                   totalFailed, reported>>
    /\ UNCHANGED <<retrievalVars, chunkVars, streamVars, embedVars>>

\* the second findOne resolves: the document is built, processAuditFinding
\* is applied (it throws on a document without content) and the embeddings
\* are asked for
FindOneResolves(k) ==
    /\ InBatch(k)
    /\ settled[k].st = "findOne"
    /\ settled' = [settled EXCEPT ![k] =
                      IF findings[k].content = <<>>
                      THEN Promise("rejected", 0, "chunking", 0)
                      ELSE Promise("embedding", 1, "none",
                               Len(processAuditFinding(
                                       Finding(findings[k].content[1]))))]
    /\ UNCHANGED <<config, findings, collection, ipc, batchNo, totalSuccessful,
                   totalFailed, reported>>
    /\ UNCHANGED <<retrievalVars, chunkVars, streamVars, embedVars>>

\* embeddingService.generateEmbeddings resolves: the chunks, the average
\* embedding and indexed_at are set and finding.save() is called
EmbeddingsResolve(k) ==
    /\ InBatch(k)
    /\ settled[k].st = "embedding"
    /\ settled' = [settled EXCEPT ![k].st = "save"]
    /\ UNCHANGED <<config, findings, collection, ipc, batchNo, totalSuccessful,
                   totalFailed, reported>>
    /\ UNCHANGED <<retrievalVars, chunkVars, streamVars, embedVars>>

\* the finding stamped as indexed although its embeddings failed
EmbeddingsRejectMarksIndexed(k) ==
    /\ InBatch(k)
    /\ settled[k].st = "embedding"
    /\ settled[k].chunks > 0
    /\ IF settled[k].attempt = maxRetries
       THEN /\ settled' = [settled EXCEPT ![k] =
                               Promise("rejected", 0, "embedding", 0)]
            /\ collection' = [collection EXCEPT ![findings[k].id] = "indexed"]
       ELSE /\ settled' = [settled EXCEPT ![k] =
                               Promise("backoff", @.attempt, "none", @.chunks)]
            /\ UNCHANGED collection
    /\ UNCHANGED <<config, findings, ipc, batchNo, totalSuccessful,
                   totalFailed, reported>>
    /\ UNCHANGED <<retrievalVars, chunkVars, streamVars, embedVars>>

\* one attempt more than maxRetries
EmbeddingsRejectRetriesAgain(k) ==
    /\ InBatch(k)
    /\ settled[k].st = "embedding"
    /\ settled[k].chunks > 0
    /\ settled' = [settled EXCEPT ![k] =
                      IF settled[k].attempt > maxRetries
                      THEN Promise("rejected", 0, "embedding", 0)
                      ELSE Promise("backoff", @.attempt, "none", @.chunks)]
    /\ UNCHANGED <<config, findings, collection, ipc, batchNo, totalSuccessful,
                   totalFailed, reported>>
    /\ UNCHANGED <<retrievalVars, chunkVars, streamVars, embedVars>>

\* embeddingService.generateEmbeddings rejects: the last attempt rethrows,
\* an earlier one waits 2^attempt seconds. Of an empty list of texts no
\* embedding is asked for, and the call cannot reject
EmbeddingsReject(k) ==
    /\ InBatch(k)
    /\ settled[k].st = "embedding"
    /\ settled[k].chunks > 0
    /\ settled' = [settled EXCEPT ![k] =
                      IF settled[k].attempt = maxRetries
                      THEN Promise("rejected", 0, "embedding", 0)
                      ELSE Promise("backoff", @.attempt, "none", @.chunks)]
    /\ UNCHANGED <<config, findings, collection, ipc, batchNo, totalSuccessful,
                   totalFailed, reported>>
    /\ UNCHANGED <<retrievalVars, chunkVars, streamVars, embedVars>>

\* the backoff delay elapses: the next attempt is made
BackoffElapses(k) ==
    /\ InBatch(k)
    /\ settled[k].st = "backoff"
    /\ settled' = [settled EXCEPT ![k] =
                      Promise("embedding", @.attempt + 1, "none", @.chunks)]
    /\ UNCHANGED <<config, findings, collection, ipc, batchNo, totalSuccessful,
                   totalFailed, reported>>
    /\ UNCHANGED <<retrievalVars, chunkVars, streamVars, embedVars>>

\* finding.save() resolves
SaveResolves(k) ==
    /\ InBatch(k)
    /\ settled[k].st = "save"
    /\ collection' = [collection EXCEPT ![findings[k].id] = "indexed"]
    /\ settled' = [settled EXCEPT ![k] = Promise("fulfilled", 0, "none", 0)]
    /\ UNCHANGED <<config, findings, ipc, batchNo, totalSuccessful,
                   totalFailed, reported>>
    /\ UNCHANGED <<retrievalVars, chunkVars, streamVars, embedVars>>

\* finding.save() rejects
SaveRejects(k) ==
    /\ InBatch(k)
    /\ settled[k].st = "save"
    /\ settled' = [settled EXCEPT ![k] = Promise("rejected", 0, "save", 0)]
    /\ UNCHANGED <<config, findings, collection, ipc, batchNo, totalSuccessful,
                   totalFailed, reported>>
    /\ UNCHANGED <<retrievalVars, chunkVars, streamVars, embedVars>>

RECURSIVE CountIn(_, _)
\* results.filter(r => r.status === status).length
CountIn(batch, status) ==
    IF batch = <<>> THEN 0
    ELSE (IF settled[Head(batch)].st = status THEN 1 ELSE 0)
             + CountIn(Tail(batch), status)

RECURSIVE ReportFrom(_, _)
\* results.forEach((result, idx) => { if rejected: log findings[idx].id }):
\* the ids logged, and whether reading .id of a null entry threw
ReportFrom(batch, ids) ==
    IF batch = <<>> THEN [ids |-> ids, threw |-> FALSE]
    ELSE IF settled[Head(batch)].st # "rejected"
         THEN ReportFrom(Tail(batch), ids)
    ELSE IF findings[Head(batch)].isNull THEN [ids |-> ids, threw |-> TRUE]
    ELSE ReportFrom(Tail(batch), Append(ids, findings[Head(batch)].id))

\* processBatch has returned: the results array is gone, the model keeps
\* the status of each promise and drops its reason
Returned ==
    [k \in DOMAIN settled |-> Promise(settled[k].st, 0, "none", 0)]

\* Promise.all in place of Promise.allSettled: a rejection ends the run
BatchSettlesFailFast ==
    LET batch == Batches[batchNo]
    IN  /\ ipc = "batch"
        /\ \A j \in 1..Len(batch) : IsSettled(batch[j])
        /\ IF CountIn(batch, "rejected") > 0
           THEN /\ ipc' = "aborted"
                /\ UNCHANGED <<totalSuccessful, totalFailed>>
           ELSE /\ totalSuccessful' = totalSuccessful + Len(batch)
                /\ UNCHANGED totalFailed
                /\ ipc' = IF batchNo < Len(Batches) THEN "delay" ELSE "completed"
        /\ settled' = Returned
        /\ UNCHANGED <<config, findings, collection, batchNo, reported>>
        /\ UNCHANGED <<retrievalVars, chunkVars, streamVars, embedVars>>

\* every promise of the batch has settled: processBatch counts, reports and
\* returns, ingestFindings adds to its totals and waits before the next
\* batch or prints the totals after the last
BatchSettles ==
    LET batch == Batches[batchNo]
        report == ReportFrom(batch, reported)
    IN  /\ ipc = "batch"
        /\ \A j \in 1..Len(batch) : IsSettled(batch[j])
        /\ reported' = report.ids
        /\ IF report.threw
           THEN /\ ipc' = "aborted"
                /\ UNCHANGED <<totalSuccessful, totalFailed>>
           ELSE /\ totalSuccessful' = totalSuccessful + CountIn(batch, "fulfilled")
                /\ totalFailed' = totalFailed + CountIn(batch, "rejected")
                /\ ipc' = IF batchNo < Len(Batches) THEN "delay" ELSE "completed"
        /\ settled' = Returned
        /\ UNCHANGED <<config, findings, collection, batchNo>>
        /\ UNCHANGED <<retrievalVars, chunkVars, streamVars, embedVars>>

\* await this.delay(delayMs) elapses: the next batch is started
DelayElapses ==
    /\ ipc = "delay"
    /\ batchNo' = batchNo + 1
    /\ settled' = StartBatch(batchNo + 1)
    /\ ipc' = "batch"
    /\ UNCHANGED <<config, findings, collection, totalSuccessful, totalFailed,
                   reported>>
    /\ UNCHANGED <<retrievalVars, chunkVars, streamVars, embedVars>>

InitIngest ==
    /\ config \in Configs
    /\ \E cases \in SeqsUpTo(EntryCases, MaxFindings) :
          /\ findings = [k \in 1..Len(cases) |-> EntryOf(cases[k], k)]
          /\ collection = [k \in 1..Len(cases) |->
                              IF cases[k] = "indexed" THEN "indexed" ELSE "absent"]
          /\ settled = [k \in 1..Len(cases) |-> Promise("pending", 0, "none", 0)]
    /\ ipc = "called"
    /\ batchNo = 0
    /\ totalSuccessful = 0
    /\ totalFailed = 0
    /\ reported = <<>>
    /\ RetrievalIdle
    /\ ChunkerIdle
    /\ StreamIdle
    /\ EmbedIdle

NextIngest ==
    \/ IngestFindingsCall
    \/ \E k \in 1..MaxFindings : FindExistingResolves(k)
    \/ \E k \in 1..MaxFindings : FindRejects(k)
    \/ \E k \in 1..MaxFindings : FindOneResolves(k)
    \/ \E k \in 1..MaxFindings : EmbeddingsResolve(k)
    \/ \E k \in 1..MaxFindings : EmbeddingsReject(k)
    \/ \E k \in 1..MaxFindings : BackoffElapses(k)
    \/ \E k \in 1..MaxFindings : SaveResolves(k)
    \/ \E k \in 1..MaxFindings : SaveRejects(k)
    \/ BatchSettles
    \/ DelayElapses

SpecIngest == InitIngest /\ [][NextIngest]_vars

\* every await settles and every timer elapses
FairIngest == WF_vars(NextIngest)

SpecIngestFair == SpecIngest /\ FairIngest

(***************************************************************************)
(* ingestFindings with skipExisting on a store without indexed findings:   *)
(* the input array may name one id several times, and may hold findings    *)
(* whose content has no sentence.                                          *)
(***************************************************************************)
FindingIds == {1, 2}

\* batches of two, skipExisting as the command line sets it
SkipConfig == [batchSize |-> 2, skipExisting |-> TRUE]

RepeatCases == {"new", "blank"}

RepeatEntries == { EntryOf(case, id) : case \in RepeatCases, id \in FindingIds }

\* a document not in the collection, or stored without indexed_at
Unindexed == {"absent", "stored"}

InitIngestRepeated ==
    /\ config = SkipConfig
    /\ findings \in SeqsUpTo(RepeatEntries, MaxFindings)
    /\ collection \in [FindingIds -> Unindexed]
    /\ settled = [k \in 1..Len(findings) |-> Promise("pending", 0, "none", 0)]
    /\ ipc = "called"
    /\ batchNo = 0
    /\ totalSuccessful = 0
    /\ totalFailed = 0
    /\ reported = <<>>
    /\ RetrievalIdle
    /\ ChunkerIdle
    /\ StreamIdle
    /\ EmbedIdle

SpecIngestRepeated == InitIngestRepeated /\ [][NextIngest]_vars

(***************************************************************************)
(* reindexAll of scripts/ingest-audit-findings.ts: every stored finding is *)
(* read and handed to ingestFindings. In that file processFinding calls    *)
(* generateEmbeddings once, without retry, and processBatch returns        *)
(* nothing; the rest of the run is as above.                               *)
(***************************************************************************)
CliBatchSize == 5

\* the configuration of main, and one with batches small enough for the
\* stores tried here to need several
ReindexConfigs ==
    { [batchSize |-> b, skipExisting |-> TRUE] : b \in {2, CliBatchSize} }

\* a stored document, with or without indexed_at
StoredStates == {"stored", "indexed"}

\* f.toObject() of the stored document id
ToObject(id) == ObjectEntry(id, <<SomeContent>>)

\* reindexAll(): AuditFinding.find({}) resolves and ingestFindings is
\* called with the objects of all the documents found
ReindexAllCall ==
    /\ ipc = "reindex"
    /\ findings' = [id \in DOMAIN collection |-> ToObject(id)]
    /\ settled' = [id \in DOMAIN collection |-> Promise("pending", 0, "none", 0)]
    /\ ipc' = "called"
    /\ UNCHANGED <<config, collection, batchNo, totalSuccessful, totalFailed,
                   reported>>
    /\ UNCHANGED <<retrievalVars, chunkVars, streamVars, embedVars>>

\* AuditFinding.find({}) rejects: reindexAll rejects
FindAllRejects ==
    /\ ipc = "reindex"
    /\ ipc' = "aborted"
    /\ UNCHANGED <<config, findings, collection, batchNo, settled,
                   totalSuccessful, totalFailed, reported>>
    /\ UNCHANGED <<retrievalVars, chunkVars, streamVars, embedVars>>

\* embeddingService.generateEmbeddings rejects: processFinding rejects
EmbeddingsRejectOnce(k) ==
    /\ InBatch(k)
    /\ settled[k].st = "embedding"
    /\ settled[k].chunks > 0
    /\ settled' = [settled EXCEPT ![k] = Promise("rejected", 0, "embedding", 0)]
    /\ UNCHANGED <<config, findings, collection, ipc, batchNo, totalSuccessful,
                   totalFailed, reported>>
    /\ UNCHANGED <<retrievalVars, chunkVars, streamVars, embedVars>>

\* every promise of the batch has settled: processBatch logs the counts
\* and the errors and returns
BatchSettlesLogged ==
    LET batch == Batches[batchNo]
        report == ReportFrom(batch, reported)
    IN  /\ ipc = "batch"
        /\ \A j \in 1..Len(batch) : IsSettled(batch[j])
        /\ reported' = report.ids
        /\ ipc' = IF report.threw THEN "aborted"
                  ELSE IF batchNo < Len(Batches) THEN "delay"
                  ELSE "completed"
        /\ settled' = Returned
        /\ UNCHANGED <<config, findings, collection, batchNo, totalSuccessful,
                       totalFailed>>
        /\ UNCHANGED <<retrievalVars, chunkVars, streamVars, embedVars>>

InitReindex ==
    /\ config \in ReindexConfigs
    /\ findings = <<>>
    /\ \E n \in 0..MaxFindings : collection \in [1..n -> StoredStates]
    /\ settled = <<>>
    /\ ipc = "reindex"
    /\ batchNo = 0
    /\ totalSuccessful = 0
    /\ totalFailed = 0
    /\ reported = <<>>
    /\ RetrievalIdle
    /\ ChunkerIdle
    /\ StreamIdle
    /\ EmbedIdle

NextReindex ==
    \/ ReindexAllCall
    \/ FindAllRejects
    \/ IngestFindingsCall
    \/ \E k \in 1..MaxFindings : FindExistingResolves(k)
    \/ \E k \in 1..MaxFindings : FindRejects(k)
    \/ \E k \in 1..MaxFindings : FindOneResolves(k)
    \/ \E k \in 1..MaxFindings : EmbeddingsResolve(k)
    \/ \E k \in 1..MaxFindings : EmbeddingsRejectOnce(k)
    \/ \E k \in 1..MaxFindings : SaveResolves(k)
    \/ \E k \in 1..MaxFindings : SaveRejects(k)
    \/ BatchSettlesLogged
    \/ DelayElapses

SpecReindex == InitReindex /\ [][NextReindex]_vars

(***************************************************************************)
(* GeminiEmbeddingService.generateEmbeddings: the texts are embedded in    *)
(* batches of 100, each batch by one Promise.all over generateEmbedding,   *)
(* with a delay between two batches. A text is kept as its number in the   *)
(* list of chunk texts, a vector as the text the service made it from.     *)
(***************************************************************************)
MaxTexts == 201

EmbedBatchSize == 100

\* data.embedding.values of the response to { parts: [{ text }] }
EmbeddingOf(text) == [values |-> <<text % 3, text>>]

\* texts.slice(i, i + batchSize)
TextBatch == SubSeq(texts, offset + 1, Min(offset + EmbedBatchSize, Len(texts)))

\* Promise.all(batch.map(text => this.generateEmbedding(text))): the
\* vectors in the order of the batch, whatever order they arrived in
BatchEmbeddings(batch) == [j \in 1..Len(batch) |-> EmbeddingOf(batch[j])]

\* generateEmbeddings(texts) is called: without texts it returns [] at
\* once, otherwise the first batch is sent
GenerateEmbeddingsCall ==
    /\ gpc = "called"
    /\ gpc' = IF Len(texts) = 0 THEN "returned" ELSE "batch"
    /\ UNCHANGED <<texts, offset, vectors, stored>>
    /\ UNCHANGED <<retrievalVars, chunkVars, streamVars, ingestVars>>

\* the new vectors put before the old ones
BatchResolvesPrepends ==
    /\ gpc = "batch"
    /\ vectors' = BatchEmbeddings(TextBatch) \o vectors
    /\ IF offset + EmbedBatchSize < Len(texts)
       THEN gpc' = "delay" /\ UNCHANGED offset
       ELSE gpc' = "returned" /\ offset' = offset + EmbedBatchSize
    /\ UNCHANGED <<texts, stored>>
    /\ UNCHANGED <<retrievalVars, chunkVars, streamVars, ingestVars>>

\* the Promise.all of the batch resolves: results.push(...embeddings),
\* then the delay if texts are left, the return if not
BatchResolves ==
    /\ gpc = "batch"
    /\ vectors' = vectors \o BatchEmbeddings(TextBatch)
    /\ IF offset + EmbedBatchSize < Len(texts)
       THEN gpc' = "delay" /\ UNCHANGED offset
       ELSE gpc' = "returned" /\ offset' = offset + EmbedBatchSize
    /\ UNCHANGED <<texts, stored>>
    /\ UNCHANGED <<retrievalVars, chunkVars, streamVars, ingestVars>>

\* a generateEmbedding of the batch rejects: generateEmbeddings rejects
BatchRejects ==
    /\ gpc = "batch"
    /\ gpc' = "failed"
    /\ UNCHANGED <<texts, offset, vectors, stored>>
    /\ UNCHANGED <<retrievalVars, chunkVars, streamVars, ingestVars>>

\* await this.delay(1000) elapses: i += batchSize and the next batch is sent
EmbedDelayElapses ==
    /\ gpc = "delay"
    /\ offset' = offset + EmbedBatchSize
    /\ gpc' = "batch"
    /\ UNCHANGED <<texts, vectors, stored>>
    /\ UNCHANGED <<retrievalVars, chunkVars, streamVars, ingestVars>>

\* finding.chunks = chunks.map((chunk, idx) =>
\*     ({ ...chunk, embedding: embeddings[idx] }))
\* with chunks[idx].text the text handed over as texts[idx]
AttachEmbeddings ==
    /\ gpc = "returned"
    /\ stored' = [k \in 1..Len(texts) |->
                     [text |-> texts[k],
                      chunk_index |-> k - 1,
                      embedding |-> IF k <= Len(vectors) THEN <<vectors[k]>>
                                    ELSE <<>>]]
    /\ gpc' = "attached"
    /\ UNCHANGED <<texts, offset, vectors>>
    /\ UNCHANGED <<retrievalVars, chunkVars, streamVars, ingestVars>>

InitEmbed ==
    /\ \E n \in 0..MaxTexts : texts = [k \in 1..n |-> k]
    /\ gpc = "called"
    /\ offset = 0
    /\ vectors = <<>>
    /\ stored = <<>>
    /\ RetrievalIdle
    /\ ChunkerIdle
    /\ StreamIdle
    /\ IngestIdle

NextEmbed ==
    \/ GenerateEmbeddingsCall
    \/ BatchResolves
    \/ BatchRejects
    \/ EmbedDelayElapses
    \/ AttachEmbeddings

SpecEmbed == InitEmbed /\ [][NextEmbed]_vars

(***************************************************************************)
(* Properties of the fusion, checked under SpecFuse.                       *)
(***************************************************************************)
TopK == OrDefault(options.topK, DefaultTopK)

Fused == pc = "done"

IdsOf(list) == {list[i].id : i \in 1..Len(list)}

NoRepeatedId(list) ==
    \A i, j \in 1..Len(list) : list[i].id = list[j].id => i = j

Seen == vectorResults \o keywordResults

\* position in vector-then-keyword order at which a document is first seen
FirstSeen(id) == CHOOSE i \in 1..Len(Seen) :
                    /\ Seen[i].id = id
                    /\ \A j \in 1..(i - 1) : Seen[j].id # id

\* 1/(60 + r + 1) for the zero-based rank r of id in list, 0 if absent
Contribution(list, id) ==
    IF id \in IdsOf(list)
    THEN LET r == (CHOOSE i \in 1..Len(list) : list[i].id = id) - 1
         IN  Frac(1, 60 + r + 1)
    ELSE Zero

\* C1: for every topK >= 1 and every pair of lists, repeated ids included,
\* the fusion returns at most topK entries and no document id twice.
C1_AtMostTopKDistinctIds ==
    Fused => /\ Len(results) <= TopK
             /\ NoRepeatedId(results)

C1_Witness ==
    /\ Fused
    /\ ~NoRepeatedId(vectorResults)
    /\ ~NoRepeatedId(keywordResults)
    /\ Cardinality(IdsOf(Seen)) > TopK
    /\ Len(results) = TopK

\* C2: when no id repeats within a list, every returned document's fused
\* score is the sum over the two lists of 1/(60 + r + 1), r its zero-based
\* rank in the list, and 0 for a list that does not contain it.
C2_FusedScoreIsSumOfReciprocalRanks ==
    (Fused /\ NoRepeatedId(vectorResults) /\ NoRepeatedId(keywordResults)) =>
        \A i \in 1..Len(results) :
            results[i].score =
                FracAdd(Contribution(vectorResults, results[i].id),
                        Contribution(keywordResults, results[i].id))

C2_Witness ==
    /\ Fused
    /\ NoRepeatedId(vectorResults)
    /\ NoRepeatedId(keywordResults)
    /\ \E i \in 1..Len(results) :
          /\ results[i].id \in IdsOf(vectorResults) \cap IdsOf(keywordResults)
          /\ results[i].score = FracAdd(Frac(1, 62), Frac(1, 61))
    /\ \E i \in 1..Len(results) : results[i].id \notin IdsOf(vectorResults)

\* C3: the output is ordered by non-increasing fused score, and of two
\* documents with equal fused scores the one first inserted into the
\* accumulator (vector list in rank order, then keyword-only documents)
\* comes first.
C3_DescendingStableOrder ==
    Fused =>
        \A i, j \in 1..Len(results) :
            i < j =>
                /\ FracLeq(results[j].score, results[i].score)
                /\ results[i].score = results[j].score =>
                       FirstSeen(results[i].id) < FirstSeen(results[j].id)

\* two documents tie although the keyword list ranks them the other way
\* round: the vector rank decides
C3_Witness ==
    /\ Fused
    /\ \E i, j \in 1..Len(results) :
          /\ i < j
          /\ results[i].score = results[j].score
          /\ results[i].id \in IdsOf(vectorResults)
          /\ results[j].id \in IdsOf(vectorResults)
          /\ Contribution(keywordResults, results[i].id) # Zero
          /\ FracLess(Contribution(keywordResults, results[i].id),
                      Contribution(keywordResults, results[j].id))

Payload(r) == [text |-> r.text, metadata |-> r.metadata]

\* C4: a returned entry carries the text and metadata of the candidate of
\* its document that was seen first, vector list before keyword list and
\* lower rank before higher rank, also when the vector list holds the id at
\* two ranks.
C4_FirstSeenPayloadKept ==
    Fused =>
        \A i \in 1..Len(results) :
            Payload(results[i]) = Payload(Seen[FirstSeen(results[i].id)])

D1 == Candidate(1, "1")

D2 == Candidate(2, "1")

FuseScenario ==
    /\ vectorResults = <<D1, D2>>
    /\ keywordResults = <<D2>>
    /\ options.topK = <<2>>

\* C5 as stated: fusing [D1, D2] with [D2], topK = 2, scores D2 1/61 + 1/61
\* and D1 1/61, in the order [D2, D1].
C5_ScenarioAsStated ==
    (Fused /\ FuseScenario) =>
        /\ Len(results) = 2
        /\ results[1].id = 2
        /\ results[1].score = FracAdd(Frac(1, 61), Frac(1, 61))
        /\ results[2].id = 1
        /\ results[2].score = Frac(1, 61)

\* C5 amended: fusing [D1, D2] with [D2], topK = 2, scores D2 1/62 + 1/61
\* (vector rank 1, keyword rank 0) and D1 1/61, in the order [D2, D1].
C5_ScenarioAmended ==
    (Fused /\ FuseScenario) =>
        /\ Len(results) = 2
        /\ results[1].id = 2
        /\ results[1].score = FracAdd(Frac(1, 62), Frac(1, 61))
        /\ results[2].id = 1
        /\ results[2].score = Frac(1, 61)

C5_Witness == Fused /\ FuseScenario /\ Len(results) = 2

(***************************************************************************)
(* Properties of the retrievers and of hybridSearch, checked under Spec.   *)
(***************************************************************************)
SearchTopK == OrDefault(searchOptions.topK, DefaultTopK)

MinScore == OrDefault(searchOptions.minScore, Frac(7, 10))

\* search() has resolved: vectorResults is what it returned
SearchResolved ==
    \/ op = "search" /\ pc = "done"
    \/ op = "hybridSearch" /\ pc \in {"keywordQuery", "merge", "done"}

\* keywordSearch() has resolved: keywordResults is what it returned
KeywordResolved == op = "hybridSearch" /\ pc \in {"merge", "done"}

InAllowLists(impact, protocol, firm, filters) ==
    /\ filters.impact # {} => impact \in filters.impact
    /\ filters.protocol # {} => protocol \in filters.protocol
    /\ filters.firm # {} => firm \in filters.firm

DocInAllowLists(id, filters) ==
    InAllowLists(store[id].impact, store[id].protocol_name, store[id].firm_name,
                 filters)

Descending(list) ==
    \A i, j \in 1..Len(list) : i < j => FracLeq(list[j].score, list[i].score)

\* C6: a hybridSearch call invokes search once with ceil(1.5 * topK),
\* keywordSearch once with the caller's topK, repeats neither, and returns
\* the fusion of the two lists they resolved to, cut to the caller's topK.
C6_HybridCallsEachRetrieverOnce ==
    op = "hybridSearch" =>
        /\ Len(vectorCalls) <= 1
        /\ Len(keywordCalls) <= 1
        /\ pc = "done" =>
              /\ Len(vectorCalls) = 1
              /\ 2 * vectorCalls[1] >= 3 * TopK
              /\ 2 * (vectorCalls[1] - 1) < 3 * TopK
              /\ keywordCalls = <<TopK>>
              /\ results = mergeAndRerankResults(vectorResults, keywordResults, TopK)
              /\ Len(results) <= TopK

C6_Witness ==
    /\ op = "hybridSearch"
    /\ pc = "done"
    /\ options.topK = <<1>>
    /\ vectorCalls = <<2>>
    /\ Len(vectorResults) = 2
    /\ Len(keywordResults) >= 1
    /\ Len(results) = 1

\* the chunks of indexed documents that pass the allow-lists and have a
\* similarity of at least minScore, as <<document id, chunk number>>
PassingCandidates ==
    { c \in UNION { {<<id, j>> : j \in 1..Len(store[id].chunks)} : id \in DocIds } :
        /\ DocInAllowLists(c[1], searchOptions.filters)
        /\ FracLeq(MinScore, Frac(sim[c[1]], 10)) }

\* C7: search() returns the topK highest-scoring candidates among those
\* that pass the allow-lists and minScore, in descending score order; so
\* with at least topK passing candidates it returns exactly topK.
C7_FiltersBeforeTruncation ==
    SearchResolved =>
        /\ Descending(vectorResults)
        /\ Len(vectorResults) = Min(SearchTopK, Cardinality(PassingCandidates))
        /\ \A i \in 1..Len(vectorResults) :
              \E c \in PassingCandidates :
                  /\ vectorResults[i].id = c[1]
                  /\ vectorResults[i].text = store[c[1]].chunks[c[2]].text
        /\ \A c \in PassingCandidates :
              \/ \E i \in 1..Len(vectorResults) :
                    /\ vectorResults[i].id = c[1]
                    /\ vectorResults[i].text = store[c[1]].chunks[c[2]].text
              \/ \A i \in 1..Len(vectorResults) :
                    FracLeq(Frac(sim[c[1]], 10), vectorResults[i].score)

\* C8: keywordSearch() returns at most topK candidates in descending order
\* of normalized score, also when a matched document holds several chunks.
C8_KeywordAtMostTopK ==
    KeywordResolved =>
        /\ Len(keywordResults) <= TopK
        /\ Descending(keywordResults)

\* C9: every candidate search() returns carries the similarity the index
\* computed for its document, and that similarity is >= minScore.
C9_VectorScoreAtLeastMinScore ==
    SearchResolved =>
        \A i \in 1..Len(vectorResults) :
            /\ vectorResults[i].score = Frac(sim[vectorResults[i].id], 10)
            /\ FracLeq(MinScore, vectorResults[i].score)

C9_Witness ==
    /\ SearchResolved
    /\ searchOptions.minScore = <<Frac(9, 10)>>
    /\ \E i \in 1..Len(vectorResults) : vectorResults[i].score = MinScore
    /\ \E id \in DocIds :
          /\ store[id].chunks # <<>>
          /\ DocInAllowLists(id, searchOptions.filters)
          /\ FracLess(Frac(sim[id], 10), MinScore)
          /\ id \notin IdsOf(vectorResults)

ResultsInAllowLists(list, filters) ==
    \A i \in 1..Len(list) :
        InAllowLists(list[i].metadata.impact, list[i].metadata.protocol,
                     list[i].metadata.firm, filters)

\* C10: with a non-empty impact, protocol or firm allow-list, no candidate
\* returned by search, keywordSearch or hybridSearch has that field
\* outside the allow-list.
C10_ResultsWithinAllowLists ==
    op \in {"search", "hybridSearch"} =>
        /\ ResultsInAllowLists(vectorResults, options.filters)
        /\ ResultsInAllowLists(keywordResults, options.filters)
        /\ ResultsInAllowLists(results, options.filters)
        /\ \A i \in 1..Len(vectorResults) :
              vectorResults[i].metadata.impact = store[vectorResults[i].id].impact
        /\ \A i \in 1..Len(keywordResults) :
              keywordResults[i].metadata.firm = store[keywordResults[i].id].firm_name

C10_Witness ==
    /\ op = "hybridSearch"
    /\ pc = "done"
    /\ options.filters.impact = {"HIGH"}
    /\ results # <<>>
    /\ vectorResults # <<>>
    /\ keywordResults # <<>>
    /\ \E id \in DocIds :
          /\ store[id].impact = "LOW"
          /\ store[id].chunks # <<>>
          /\ FracLeq(MinScore, Frac(sim[id], 10))
          /\ textScore[id] > 0

\* C11: a failure of the embedding call, of the vector query or of the
\* keyword query is never swallowed: once a channel has failed the call has
\* rejected and has returned no list, neither a partial one from search nor
\* one that hybridSearch built from the surviving channel.
C11_ChannelFailureNeverSwallowed ==
    /\ error # "none" => pc = "failed" /\ results = <<>>
    /\ pc \in {"merge", "done"} => error = "none"

\* the keyword channel fails after the vector channel returned candidates
C11_Witness ==
    /\ op = "hybridSearch"
    /\ pc = "failed"
    /\ error = "keywordStore"
    /\ vectorResults # <<>>
    /\ results = <<>>

(***************************************************************************)
(* Properties of the document processor, checked under SpecChunk.          *)
(***************************************************************************)
Sections == extractSections(finding.content)

SentencesOf(k) == splitIntoSentences(Sections[k].content)

OfSection(name) == SelectSeq(chunks, LAMBDA c : c.metadata.section = name)

\* the chunks processAuditFinding returned for section k, as sentence lists
Emitted(k) ==
    LET cs == OfSection(Sections[k].name)
    IN  [j \in 1..Len(cs) |-> cs[j].text.chunk]

RECURSIVE SumSizes(_)
\* the sum of the estimated sizes of the sentences, as chunkText adds them
SumSizes(sentences) ==
    IF sentences = <<>> THEN 0
    ELSE estimateTokens(Head(sentences).words) + SumSizes(Tail(sentences))

Last(seq) == seq[Len(seq)]

\* the sentences chunk next shares with the chunk prev before it
Shared(prev, next) == SelectSeq(next, LAMBDA x : x.pos <= Last(prev).pos)

\* C12: the chunk_index values of the list processAuditFinding returns are
\* 0, 1, ..., N-1 in list order, a single counter running across sections.
C12_ChunkIndexRunsAcrossSections ==
    cpc = "done" => \A i \in 1..Len(chunks) : chunks[i].chunk_index = i - 1

\* a first section of two chunks followed by a chunk of another section
C12_Witness ==
    /\ cpc = "done"
    /\ Len(chunks) >= 3
    /\ chunks[1].metadata.section = chunks[2].metadata.section
    /\ chunks[3].metadata.section # chunks[2].metadata.section
    /\ chunks[3].chunk_index = 2

\* C13: in a section each of whose sentences fits in maxChunkSize on its
\* own, every chunk has an estimated size of at most maxChunkSize, chunks
\* that start with overlap sentences included.
C13_ChunkWithinMaxSize ==
    cpc = "done" =>
        \A k \in 1..Len(Sections) :
            (\A i \in 1..Len(SentencesOf(k)) :
                 estimateTokens(SentencesOf(k)[i].words) <= maxChunkSize)
            => \A j \in 1..Len(Emitted(k)) :
                   estimateTokens(SumWords(Emitted(k)[j])) <= maxChunkSize

\* chunk c is a run of consecutive sentences of the list, in list order
Contiguous(sentences, c) ==
    /\ \A j \in 1..Len(c) :
           c[j].pos \in 1..Len(sentences) /\ c[j] = sentences[c[j].pos]
    /\ \A j \in 1..(Len(c) - 1) : c[j + 1].pos = c[j].pos + 1

\* the chunk list cs covers the sentence list without gap: every chunk is a
\* run of consecutive sentences, the first starts at the first sentence,
\* the last ends at the last one, and a chunk starts inside or right after
\* the chunk before it and ends after it
Covers(sentences, cs) ==
    /\ (sentences = <<>>) <=> (cs = <<>>)
    /\ \A j \in 1..Len(cs) : cs[j] # <<>> /\ Contiguous(sentences, cs[j])
    /\ cs # <<>> => /\ cs[1][1].pos = 1
                   /\ Last(Last(cs)).pos = Len(sentences)
    /\ \A j \in 1..(Len(cs) - 1) :
           /\ cs[j + 1][1].pos >= cs[j][1].pos
           /\ cs[j + 1][1].pos <= Last(cs[j]).pos + 1
           /\ Last(cs[j + 1]).pos > Last(cs[j]).pos

\* C14: the chunks of a section cover its sentence list with no gap and in
\* order; a sentence is repeated only as an overlap sentence at the start
\* of a chunk, and those are a suffix of the chunk before.
C14_ChunksCoverSentences ==
    cpc = "done" =>
        \A k \in 1..Len(Sections) : Covers(SentencesOf(k), Emitted(k))

\* a chunk of three sentences followed by one that repeats its last two
C14_Witness ==
    /\ cpc = "done"
    /\ Len(Sections) = 1
    /\ Len(Emitted(1)) = 2
    /\ Len(Emitted(1)[1]) = 3
    /\ Len(Shared(Emitted(1)[1], Emitted(1)[2])) = 2
    /\ Len(Emitted(1)[2]) = 3

\* C15: the sentences two consecutive chunks share have a cumulative
\* estimated size of at most chunkOverlap.
C15_OverlapWithinBudget ==
    cpc = "done" =>
        \A k \in 1..Len(Sections) :
            \A j \in 1..(Len(Emitted(k)) - 1) :
                SumSizes(Shared(Emitted(k)[j], Emitted(k)[j + 1])) <= chunkOverlap

\* a chunk whose three sentences are each within the budget on their own
\* (39, 13 and 13 tokens): only the last two, 26 tokens, are repeated
C15_Witness ==
    /\ cpc = "done"
    /\ \E k \in 1..Len(Sections) :
          \E j \in 1..(Len(Emitted(k)) - 1) :
              /\ Len(Emitted(k)[j]) = 3
              /\ estimateTokens(Emitted(k)[j][1].words) = 39
              /\ Len(Shared(Emitted(k)[j], Emitted(k)[j + 1])) = 2
              /\ SumSizes(Shared(Emitted(k)[j], Emitted(k)[j + 1])) = 26

\* C16: a section of N >= 1 sentences whose estimated sizes sum to at most
\* maxChunkSize gives exactly one chunk, made of the N sentences in order.
C16_SmallSectionIsOneChunk ==
    cpc = "done" =>
        \A k \in 1..Len(Sections) :
            (SentencesOf(k) # <<>> /\ SumSizes(SentencesOf(k)) <= maxChunkSize)
            => Emitted(k) = <<SentencesOf(k)>>

\* four sentences of 13, 39, 150 and 281 tokens returned as one chunk
C16_Witness ==
    /\ cpc = "done"
    /\ Len(Sections) = 1
    /\ Len(SentencesOf(1)) = 4
    /\ SumSizes(SentencesOf(1)) = 483
    /\ Len(chunks) = 1
    /\ chunks[1].text.chunk = SentencesOf(1)

\* chunk next begins with exactly the sentences getOverlapSentences selects
\* from chunk prev, and goes on with the sentence that follows prev
BeginsWithOverlap(prev, next) ==
    LET overlap == getOverlapSentences(prev)
    IN  /\ Len(next) > Len(overlap)
        /\ SubSeq(next, 1, Len(overlap)) = overlap
        /\ next[Len(overlap) + 1].pos = Last(prev).pos + 1

\* the sentences of the list that come after chunk c
After(sentences, c) == SubSeq(sentences, Last(c).pos + 1, Len(sentences))

\* the finding has one section and its sentences total 600 estimated tokens
TotalsSixHundred == Len(Sections) = 1 /\ SumSizes(SentencesOf(1)) = 600

C18_NoEmptyChunk ==
    cpc = "done" =>
        /\ \A k \in 1..Len(Sections) :
               SentencesOf(k) = <<>> => Emitted(k) = <<>>
        /\ \A i \in 1..Len(chunks) :
               /\ chunks[i].text.chunk # <<>>
               /\ SumWords(chunks[i].text.chunk) > 0

\* a section of terminators only next to a section that gives a chunk
C18_Witness ==
    /\ cpc = "done"
    /\ Len(Sections) = 2
    /\ Sections[1].content = <<0>>
    /\ SentencesOf(1) = <<>>
    /\ Len(chunks) = 1
    /\ chunks[1].metadata.section = Sections[2].name

(***************************************************************************)
(* Properties of queryStream, checked under SpecStream.                    *)
(***************************************************************************)
\* the data of the 'chunk' events, in the order they were emitted
ChunkData ==
    LET cs == SelectSeq(events, LAMBDA e : e.type = "chunk")
    IN  [i \in 1..Len(cs) |-> cs[i].data]

\* hybridSearch has resolved
RetrievalDone ==
    \/ spc \in {"generating", "finished"}
    \/ spc = "failed" /\ streamError = "generation"

\* C19: 'sources' is emitted once hybridSearch has resolved, not before,
\* exactly once and as the first event; the 'chunk' events follow it and
\* carry the fragments in the order the generation stream produced them;
\* 'done' is emitted at most once, after the last fragment, and is the last
\* event; when retrieval fails no event is emitted.
C19_SourcesThenChunksThenDone ==
    /\ ~RetrievalDone => events = <<>>
    /\ RetrievalDone =>
          /\ Len(events) >= 1
          /\ events[1] = [type |-> "sources", data |-> searchResults]
    /\ \A i \in 2..Len(events) : events[i].type # "sources"
    /\ ChunkData = generated
    /\ \A i \in 1..Len(events) :
          events[i].type = "done" => i = Len(events) /\ spc = "finished"
    /\ spc = "finished" => Len(events) = Len(generated) + 2
    /\ streamError = "retrieval" => events = <<>> /\ ~responseEnded

\* two sources, two different fragments in the order b, a, then done
C19_Witness ==
    /\ spc = "finished"
    /\ Len(searchResults) = 2
    /\ generated = <<"b", "a">>
    /\ Len(events) = 4
    /\ events[1].type = "sources"
    /\ events[2] = [type |-> "chunk", data |-> "b"]
    /\ events[3] = [type |-> "chunk", data |-> "a"]
    /\ events[4].type = "done"
    /\ responseEnded

(***************************************************************************)
(* Properties of ingestFindings, checked under SpecIngestFair.             *)
(***************************************************************************)
\* every entry of the input array is an object, so that a failure of its
\* processing is a lookup, chunking, embedding or save error
NoNullEntry == \A k \in 1..Len(findings) : ~findings[k].isNull

Positions == [k \in 1..Len(findings) |-> k]

\* the ids of the findings whose processing failed, in input order
FailedIds ==
    LET failed == SelectSeq(Positions, LAMBDA k : settled[k].st = "rejected")
    IN  [j \in 1..Len(failed) |-> findings[failed[j]].id]

\* the entries of the batches that ingestFindings is done with
DoneWith ==
    { k \in 1..Len(findings) :
        \E b \in 1..Len(Batches) :
            /\ \E j \in 1..Len(Batches[b]) : Batches[b][j] = k
            /\ \/ ipc = "completed"
               \/ b < batchNo
               \/ b = batchNo /\ ipc = "delay" }

IngestNeverAborts ==
    NoNullEntry =>
        /\ ipc # "aborted"
        /\ \A k \in DoneWith : IsSettled(k)
        /\ totalSuccessful + totalFailed = Cardinality(DoneWith)
        /\ totalFailed =
              Cardinality({ k \in DoneWith : settled[k].st = "rejected" })
        /\ ipc \in {"delay", "completed"} => reported = FailedIds
        /\ ipc = "completed" =>
              /\ DoneWith = 1..Len(findings)
              /\ totalSuccessful + totalFailed = Len(findings)

C22_BothEmptyGivesEmpty ==
    op = "hybridSearch" =>
        /\ pc = "failed" => error \in {"embedding", "vectorStore", "keywordStore"}
        /\ (KeywordResolved /\ vectorResults = <<>> /\ keywordResults = <<>>) =>
              /\ error = "none"
              /\ pc = "done" => results = <<>>

\* a store with indexed chunks, none similar enough and none matching the
\* text query
C22_Witness ==
    /\ op = "hybridSearch"
    /\ pc = "done"
    /\ \E id \in DocIds : store[id].chunks # <<>>
    /\ vectorResults = <<>>
    /\ keywordResults = <<>>
    /\ results = <<>>
    /\ error = "none"

\* C26: each channel adds at most one rank term to a document's fused
\* score: every document hybridSearch returns has a fused score of at most
\* 1/61 + 1/61, however many chunks it has.
C26_FusedScoreAtMostTwoTerms ==
    (op = "hybridSearch" /\ pc = "done") =>
        \A i \in 1..Len(results) : FracLeq(results[i].score, Frac(2, 61))

\* C27: within a hybridSearch call the keyword query is issued only after
\* the embedding call and the vector query have both resolved, and never
\* when either of them failed.
C27_KeywordAfterVector ==
    /\ keywordCalls # <<>> =>
          /\ op = "hybridSearch"
          /\ SearchResolved \/ error = "keywordStore"
          /\ \A id \in DocIds : sim[id] \in SimTenths
    /\ pc \in {"embedding", "vectorQuery"} => keywordCalls = <<>>
    /\ error \in {"embedding", "vectorStore"} => keywordCalls = <<>>
    /\ pc = "keywordQuery" => Len(vectorCalls) = 1 /\ Len(keywordCalls) = 1

\* the vector store query of a hybridSearch call fails: no keyword query
C27_Witness ==
    /\ op = "hybridSearch"
    /\ pc = "failed"
    /\ error = "vectorStore"
    /\ Len(vectorCalls) = 1
    /\ keywordCalls = <<>>

(***************************************************************************)
(* Properties of ingestion on inputs with blank contents and repeated ids, *)
(* checked under SpecIngestRepeated.                                       *)
(***************************************************************************)
\* C21: a finding whose content is malformed or empty, or yields zero
\* chunks, is never saved with indexed_at set: finding.save() resolves only
\* for a finding of which processAuditFinding made at least one chunk.
C21_ZeroChunksNeverSaved ==
    [][\A k \in DOMAIN settled :
          (settled[k].st = "save" /\ settled'[k].st = "fulfilled") =>
              settled[k].chunks > 0]_vars

\* generateEmbeddings has been called with the chunk texts of entry k
Embedded(k) ==
    /\ settled[k].st \in {"embedding", "backoff", "save"}
    /\ settled[k].chunks > 0

\* C29: with skipExisting, on a store without indexed findings, no id is
\* embedded and saved more than once in a run: two processFinding calls for
\* one id never both get to generateEmbeddings.
C29_EachIdEmbeddedOnce ==
    config.skipExisting =>
        \A j, k \in DOMAIN settled :
            (j # k /\ findings[j].id = findings[k].id) =>
                ~(Embedded(j) /\ Embedded(k))


(***************************************************************************)
(* Property of reindexAll, checked under SpecReindex.                      *)
(***************************************************************************)
\* C23: under the configuration of the command line (skipExisting = true)
\* reindexAll re-indexes every stored finding, those with indexed_at set
\* included: no processFinding call of the run returns at the skip test,
\* each goes on to chunk, embed and save.
C23_ReindexAllReindexesEvery ==
    [][\A k \in DOMAIN settled :
          settled[k].st = "findExisting" => settled'[k].st # "fulfilled"]_vars

(***************************************************************************)
(* Properties of the retry, the save and the batches, checked under        *)
(* SpecIngestFair.                                                         *)
(***************************************************************************)
\* an attempt of generateEmbeddingsWithRetry for entry k is under way
Attempting(k) == settled[k].st = "embedding"

\* the wait between two attempts for entry k
Waiting(k) == settled[k].st = "backoff"

\* the steps of the retry loop of entry k: an attempt starts either as the
\* first one or as attempt n + 1 when the wait after the failure of
\* attempt n has elapsed; it ends in the save (success), in a wait (failure
\* before the last attempt) or in the rejection (failure of the last)
RetryStep(k) ==
    /\ (~Attempting(k) /\ Attempting(k)') =>
           \/ settled[k].st = "findOne" /\ settled'[k].attempt = 1
           \/ Waiting(k) /\ settled'[k].attempt = settled[k].attempt + 1
    /\ (Attempting(k) /\ ~Attempting(k)') =>
           \/ settled'[k].st = "save"
           \/ /\ Waiting(k)'
              /\ settled'[k].attempt = settled[k].attempt
              /\ settled[k].attempt < maxRetries
           \/ /\ settled'[k].st = "rejected"
              /\ settled'[k].error = "embedding"
              /\ settled[k].attempt = maxRetries
    /\ (Attempting(k) /\ Attempting(k)') =>
           settled'[k].attempt = settled[k].attempt
    /\ (~Waiting(k) /\ Waiting(k)') => Attempting(k)
    /\ (Waiting(k) /\ ~Waiting(k)') => Attempting(k)'

\* C24: generateEmbeddingsWithRetry calls the embedding service at most
\* maxRetries (3) times per finding; a success ends it with no further
\* attempt, attempt n + 1 is made only after attempt n failed and the wait
\* elapsed, the failure of the third attempt rejects without another wait,
\* and every call terminates.
C24_RetryBoundedAndTerminates ==
    /\ [](\A k \in DOMAIN settled :
             /\ Attempting(k) => settled[k].attempt \in 1..maxRetries
             /\ Waiting(k) => settled[k].attempt \in 1..(maxRetries - 1))
    /\ [][\A k \in DOMAIN settled : RetryStep(k)]_vars
    /\ \A k \in 1..MaxFindings :
           (k \in DOMAIN settled /\ Attempting(k)) ~>
               (k \in DOMAIN settled /\ settled[k].st \in {"save", "rejected", "fulfilled"})

\* the third attempt has failed and the call is rejected with its error,
\* while another finding of the batch is at its second attempt
C24_Witness ==
    /\ ipc = "batch"
    /\ \E j, k \in DOMAIN settled :
          /\ settled[j].st = "rejected" /\ settled[j].error = "embedding"
          /\ Attempting(k) /\ settled[k].attempt = 2

\* processFinding of entry k was rejected by the embeddings
EmbeddingFailed(k) ==
    settled[k].st = "rejected" /\ settled[k].error = "embedding"

\* the steps that touch the save of entry k: save() is called only when an
\* attempt at the embeddings has succeeded, and the failure of the
\* embeddings leaves the collection as it was
SaveStep(k) ==
    /\ (settled[k].st # "save" /\ settled'[k].st = "save") => Attempting(k)
    /\ (~EmbeddingFailed(k) /\ EmbeddingFailed(k)') => collection' = collection
    /\ (Attempting(k) \/ Waiting(k)) =>
           collection'[findings[k].id] = collection[findings[k].id]

\* C28: processFinding saves the finding with indexed_at only after the
\* embeddings of all its chunks were obtained; when they fail after all
\* retries nothing is saved and what is stored for the id is unchanged, so
\* that a later run with skipExisting does not skip the finding.
C28_SaveOnlyAfterEmbeddings ==
    /\ [][/\ \A k \in DOMAIN settled : SaveStep(k)
          /\ collection' # collection =>
                \E k \in DOMAIN settled :
                    /\ settled[k].st = "save"
                    /\ settled'[k].st = "fulfilled"
                    /\ collection' =
                          [collection EXCEPT ![findings[k].id] = "indexed"]]_vars
    /\ [](\A k \in DOMAIN settled :
             (config.skipExisting /\ EmbeddingFailed(k)) =>
                 collection[findings[k].id] # "indexed")

\* with skipExisting, a new finding whose embeddings failed three times:
\* it is still not in the collection
C28_Witness ==
    /\ ipc = "batch"
    /\ config.skipExisting
    /\ \E k \in DOMAIN settled :
          /\ EmbeddingFailed(k)
          /\ collection[findings[k].id] = "absent"

\* the number of the batch that holds entry k
BatchOf(k) ==
    CHOOSE b \in 1..Len(Batches) : \E j \in 1..Len(Batches[b]) : Batches[b][j] = k

\* processFinding of entry k has been called and has not settled
InFlight(k) ==
    settled[k].st \in {"findExisting", "findOne", "embedding", "backoff", "save"}

\* the batches are the input cut in order into consecutive runs of
\* batchSize entries, the last one possibly shorter
IsPartition ==
    /\ Flatten(Batches) = [k \in 1..Len(findings) |-> k]
    /\ \A b \in 1..Len(Batches) :
          /\ Len(Batches[b]) \in 1..config.batchSize
          /\ b < Len(Batches) => Len(Batches[b]) = config.batchSize

\* the batch under way is the only one with calls in flight, the earlier
\* ones have settled, the later ones have not started
OneBatchAtATime ==
    /\ \A k \in DOMAIN settled :
          /\ InFlight(k) => ipc = "batch" /\ BatchOf(k) = batchNo
          /\ settled[k].st # "pending" => BatchOf(k) <= batchNo
          /\ BatchOf(k) < batchNo => IsSettled(k)
    /\ Cardinality({k \in DOMAIN settled : InFlight(k)}) <= config.batchSize
    /\ ipc = "delay" =>
          /\ batchNo < Len(Batches)
          /\ \A k \in DOMAIN settled : ~InFlight(k)

\* a batch starts after the call or after the delay that follows the batch
\* before it; the delay is entered from a batch that is not the last, and
\* the last batch ends the run without a delay
BatchStep ==
    /\ batchNo' # batchNo =>
          /\ batchNo' = batchNo + 1
          /\ ipc' = "batch"
          /\ \/ ipc = "called" /\ batchNo = 0
             \/ ipc = "delay"
    /\ (ipc # "delay" /\ ipc' = "delay") =>
          ipc = "batch" /\ batchNo < Len(Batches)
    /\ (ipc = "batch" /\ ipc' = "completed") => batchNo = Len(Batches)
    /\ (ipc = "batch" /\ batchNo = Len(Batches)) => ipc' # "delay"

\* C30: ingestFindings processes the batches strictly one after another:
\* createBatches cuts the input in order into consecutive batches of
\* batchSize (the last may be shorter), no finding of batch i + 1 starts
\* before every finding of batch i has settled, at most batchSize
\* processFinding calls are in flight, and the delay is awaited between
\* two batches and not after the last.
C30_BatchesOneAfterAnother ==
    /\ [](IsPartition /\ OneBatchAtATime)
    /\ [][BatchStep]_vars

\* three findings in batches of two: the first batch has settled and the
\* delay has elapsed, the third finding is in flight in the second batch
C30_Witness ==
    /\ config.batchSize = 2
    /\ Len(findings) = 3
    /\ ipc = "batch"
    /\ batchNo = 2
    /\ IsSettled(1) /\ IsSettled(2)
    /\ InFlight(3)

(***************************************************************************)
(* Property of generateEmbeddings, checked under SpecEmbed.                *)
(***************************************************************************)
\* C25: generateEmbeddings returns exactly one vector per input text, in
\* input order, across its batches of 100: stored chunk i carries the
\* embedding of the text of chunk i, and as many chunk embeddings are
\* stored as there are chunks.
C25_OneVectorPerTextInOrder ==
    /\ gpc \in {"returned", "attached"} =>
          /\ Len(vectors) = Len(texts)
          /\ \A k \in 1..Len(texts) : vectors[k] = EmbeddingOf(texts[k])
    /\ gpc = "attached" =>
          /\ Len(stored) = Len(texts)
          /\ \A k \in 1..Len(stored) :
                /\ stored[k].text = texts[k]
                /\ stored[k].embedding = <<EmbeddingOf(stored[k].text)>>

\* three batches: 100, 100 and 1 texts, embedded and attached
C25_Witness ==
    /\ gpc = "attached"
    /\ Len(texts) = 2 * EmbedBatchSize + 1
    /\ Len(stored) = 2 * EmbedBatchSize + 1

====
